---- MODULE Spec2Model ----
(***************************************************************************)
(* Model of the razorcore git-automation CLI                               *)
(* (src/.razorcore/src/razorcore/cli/commands.py): save_project, save_all, *)
(* bump_version, auto_bump_version and the isolated-index commit they     *)
(* share, over a small git repository model.                               *)
(*                                                                         *)
(* Strings are sequences of one-character strings, so that split, lower,   *)
(* startswith, "in", int() and f-string formatting are computed as Python  *)
(* computes them.                                                          *)
(***************************************************************************)
EXTENDS Integers, Sequences, FiniteSets, TLC

(***************************************************************************)
(* Bounds of the model.                                                    *)
(***************************************************************************)
\* file contents are 0 (the path is absent) .. MaxContent
MaxContent == 2
\* version components of the well-formed version inputs are 0 .. MaxComp
MaxComp == 10
\* longest list of commit subjects handed to the classifier
MaxCommits == 2

(***************************************************************************)
(* Python string primitives.                                               *)
(***************************************************************************)
Upper == <<"A","B","C","D","E","F","G","H","I","J","K","L","M","N","O","P","Q","R","S","T","U","V","W","X","Y","Z">>
LowerTbl == <<"a","b","c","d","e","f","g","h","i","j","k","l","m","n","o","p","q","r","s","t","u","v","w","x","y","z">>

\* str.lower() of one character
LowerChar(c) ==
    IF \E i \in 1..Len(Upper) : Upper[i] = c
    THEN LowerTbl[CHOOSE i \in 1..Len(Upper) : Upper[i] = c]
    ELSE c

\* str.lower()
Lower(s) == [i \in 1..Len(s) |-> LowerChar(s[i])]

\* str.startswith(prefix)
StartsWith(s, prefix) ==
    /\ Len(prefix) <= Len(s)
    /\ SubSeq(s, 1, Len(prefix)) = prefix

\* the Python test  `sub in s`
Contains(s, sub) ==
    \E i \in 1..(Len(s) - Len(sub) + 1) : SubSeq(s, i, i + Len(sub) - 1) = sub

\* str.split(sep) for a one-character separator: k separators give k+1 parts
RECURSIVE SplitFrom(_, _, _)
SplitFrom(s, sep, cur) ==
    IF s = <<>> THEN <<cur>>
    ELSE IF Head(s) = sep THEN <<cur>> \o SplitFrom(Tail(s), sep, <<>>)
    ELSE SplitFrom(Tail(s), sep, Append(cur, Head(s)))

Split(s, sep) == SplitFrom(s, sep, <<>>)

Digits == <<"0","1","2","3","4","5","6","7","8","9">>

IsDigit(c) == \E i \in 1..Len(Digits) : Digits[i] = c

DigitValue(c) == (CHOOSE i \in 1..Len(Digits) : Digits[i] = c) - 1

\* the digits of an int() argument after its optional sign
IntBody(s) == IF s # <<>> /\ Head(s) \in {"+", "-"} THEN Tail(s) ELSE s

\* whether int(s) returns (TRUE) or raises ValueError (FALSE), for strings
\* over digits, signs and other characters (no blanks, no underscores)
IsIntLiteral(s) ==
    /\ IntBody(s) # <<>>
    /\ \A i \in 1..Len(IntBody(s)) : IsDigit(IntBody(s)[i])

RECURSIVE DigitsValue(_, _)
DigitsValue(ds, acc) ==
    IF ds = <<>> THEN acc ELSE DigitsValue(Tail(ds), 10 * acc + DigitValue(Head(ds)))

\* int(s) for a string with IsIntLiteral(s)
ParseInt(s) ==
    IF s # <<>> /\ Head(s) = "-"
    THEN 0 - DigitsValue(IntBody(s), 0)
    ELSE DigitsValue(IntBody(s), 0)

RECURSIVE FormatNat(_)
FormatNat(n) ==
    IF n < 10 THEN <<Digits[n + 1]>>
    ELSE FormatNat(n \div 10) \o <<Digits[(n % 10) + 1]>>

\* f"{n}" for an int
FormatInt(n) == IF n < 0 THEN <<"-">> \o FormatNat(0 - n) ELSE FormatNat(n)

(***************************************************************************)
(* Version bumper: commit classification and version arithmetic.           *)
(***************************************************************************)
KwBreaking == <<"b","r","e","a","k","i","n","g"," ","c","h","a","n","g","e">>
KwBang == <<"!">>
KwFeatColon == <<"f","e","a","t",":">>
KwFeatParen == <<"f","e","a","t","(">>

IsBreaking(commit) == Contains(Lower(commit), KwBreaking) \/ StartsWith(commit, KwBang)

IsFeat(commit) == StartsWith(commit, KwFeatColon) \/ StartsWith(commit, KwFeatParen)

\* the loop `for commit in commits` with its break, from bump_type so far
RECURSIVE BumpLoop(_, _)
BumpLoop(commits, bump_type) ==
    IF commits = <<>> THEN bump_type
    ELSE IF IsBreaking(Head(commits)) THEN "major"
    ELSE IF IsFeat(Head(commits))
         THEN BumpLoop(Tail(commits), IF bump_type # "major" THEN "minor" ELSE bump_type)
    ELSE BumpLoop(Tail(commits), bump_type)

\* a classifier that stops at the first subject that matches any rule
RECURSIVE BumpLoopFirstMatch(_, _)
BumpLoopFirstMatch(commits, bump_type) ==
    IF commits = <<>> THEN bump_type
    ELSE IF IsBreaking(Head(commits)) THEN "major"
    ELSE IF IsFeat(Head(commits)) THEN "minor"
    ELSE BumpLoopFirstMatch(Tail(commits), bump_type)

BumpTypeFirstMatch(commits) == BumpLoopFirstMatch(commits, "patch")

\* bump_type as bump_version and auto_bump_version compute it
BumpType(commits) == BumpLoop(commits, "patch")

\* parts = current_version.split(".")
VersionParts(current_version) == Split(current_version, ".")

\* "invalid": len(parts) != 3 (return 1); "ValueError": int() raises; "ok"
ParseOutcome(current_version) ==
    LET parts == VersionParts(current_version) IN
    IF Len(parts) # 3 THEN "invalid"
    ELSE IF \E i \in 1..3 : ~IsIntLiteral(parts[i]) THEN "ValueError"
    ELSE "ok"

\* major, minor, patch = int(parts[0]), int(parts[1]), int(parts[2])
ParseTriple(current_version) ==
    LET parts == VersionParts(current_version) IN
    <<ParseInt(parts[1]), ParseInt(parts[2]), ParseInt(parts[3])>>

\* an increment that forgets to reset the lower components
BumpTripleNoReset(t, bump_type) ==
    IF bump_type = "major" THEN <<t[1] + 1, t[2], t[3]>>
    ELSE IF bump_type = "minor" THEN <<t[1], t[2] + 1, t[3]>>
    ELSE <<t[1], t[2], t[3] + 1>>

\* the if/elif/else over bump_type
BumpTriple(t, bump_type) ==
    IF bump_type = "major" THEN <<t[1] + 1, 0, 0>>
    ELSE IF bump_type = "minor" THEN <<t[1], t[2] + 1, 0>>
    ELSE <<t[1], t[2], t[3] + 1>>

\* f"{major}.{minor}.{patch}"
FormatVersion(t) ==
    FormatInt(t[1]) \o <<".">> \o FormatInt(t[2]) \o <<".">> \o FormatInt(t[3])

\* new_version for a current_version with ParseOutcome "ok"
NewVersion(current_version, bump_type) ==
    FormatVersion(BumpTriple(ParseTriple(current_version), bump_type))

(***************************************************************************)
(* The workspace: projects, repositories, paths and file contents.         *)
(***************************************************************************)
MANAGED_PROJECTS ==
    <<"4Charm", "Nexus", "Papyrus", "PyPixPro", "iSort", "czkawka-macos-guide", ".razorcore">>

\* the project directories that exist in the modelled workspace
ExistingProjects == {"4Charm", ".razorcore"}

\* tracked paths: <<top-level directory, file>>.  "notes" belongs to no project.
SrcPaths == {<<"4Charm", "main.py">>, <<".razorcore", "main.py">>, <<"notes", "todo.md">>}
PyPaths == {<<"4Charm", "pyproject.toml">>, <<".razorcore", "pyproject.toml">>}
Paths == SrcPaths \cup PyPaths

\* contents of a source path: 0 is "no such file"
Contents == 0..MaxContent

\* contents of a pyproject.toml: how the version line is written, and the version
AbsentPy == [fmt |-> "absent", ver |-> <<>>]
SpacedPy(v) == [fmt |-> "spaced", ver |-> v]
TightPy(v) == [fmt |-> "tight", ver |-> v]

DefaultVersion == <<"0",".","0",".","0">>

\* pyproject.exists()
PyExists(text) == text.fmt # "absent"

\* data.get("project", {}).get("version", "0.0.0")
PyVersion(text) == IF text.fmt = "nokey" THEN DefaultVersion ELSE text.ver

\* a rewrite that finds the version line however it is spaced
PyReplaceAnyFormat(text, current_version, new_version) ==
    IF text.fmt \in {"spaced", "tight"} /\ text.ver = current_version
    THEN [text EXCEPT !.ver = new_version]
    ELSE text

\* content.replace(f'version = "{current_version}"', f'version = "{new_version}"')
PyReplace(text, current_version, new_version) ==
    IF text.fmt = "spaced" /\ text.ver = current_version
    THEN [text EXCEPT !.ver = new_version]
    ELSE text

\* _tag_prefix: project.lstrip(".")
TagPrefix(project) == IF project = ".razorcore" THEN "razorcore" ELSE project

VARIABLES
    layout,     \* "mono": the workspace is one repository holding every project;
                \* "standalone": every project directory is its own repository
    pyDiff,     \* what git diff shows for a changed main.py: "def" or "plain"
    head,       \* the HEAD tree, by path
    index,      \* the primary index, by path
    wt,         \* the working tree, by path
    tmpFiles,   \* the temporary index files created so far
    log,        \* per repository, the commit subjects, oldest first
    tags,       \* per repository, the tags: [prefix, ver, at]
    pushed,     \* per repository, how many commits the remote has
    stack,      \* the call stack of the running command
    last,       \* the call that returned last, with its result
    nCommit,    \* git commit invocations so far
    nPush,      \* git push invocations so far
    inTriple,   \* classifier harness: the numbers current_version was written from
    inVersion,  \* classifier harness: current_version
    inCommits,  \* classifier harness: commits
    outBump,    \* classifier harness: bump_type
    outVersion, \* classifier harness: new_version, or how parsing failed
    statusIn,   \* message harness: the status lines git printed and the diff text
    plan,       \* message harness: added, modified, deleted, commit_type, scope, desc
    worker,     \* BaseWorker: _paused, _cancelled and the thread inside wait_if_paused
    upd,        \* UpdateChecker: the cache file, the clock and the check under way
    hooks,      \* post-commit hook: the lock directory and the running instances
    batch       \* a worker thread inside run(): do_work, its stats and the signals emitted

gitVars == <<head, index, wt, tmpFiles, log, tags, pushed, nCommit, nPush>>
envVars == <<layout, pyDiff>>
callVars == <<envVars, stack, last>>
msgVars == <<statusIn, plan>>
libVars == <<worker, upd, hooks, batch>>
harnessVars == <<inTriple, inVersion, inCommits, outBump, outVersion, msgVars, libVars>>
vars == <<gitVars, callVars, harnessVars>>

Repos == {"ws", "4Charm", ".razorcore"}

\* is_nested_project: repo_root != proj_dir_resolved
IsNested == layout = "mono"

\* git rev-parse --show-toplevel, from the project directory
RepoOf(project) == IF IsNested THEN "ws" ELSE project

RepoPaths(repo) == IF repo = "ws" THEN Paths ELSE {p \in Paths : p[1] = repo}

\* the paths a repository's pathspec `-- project_rel` selects
Under(repo, project_rel) == {p \in RepoPaths(repo) : p[1] = project_rel}

(***************************************************************************)
(* git, as the commands the code runs act on trees and indexes.            *)
(***************************************************************************)
\* git status --porcelain [-- pathspec] prints something
HasChanges(paths) == \E p \in paths : index[p] # head[p] \/ wt[p] # index[p]

\* git add -A [-- pathspec] into the index idx
GitAdd(idx, paths) == [p \in Paths |-> IF p \in paths THEN wt[p] ELSE idx[p]]

\* git reset HEAD -- pathspec on the index idx
GitReset(idx, paths) == [p \in Paths |-> IF p \in paths THEN head[p] ELSE idx[p]]

\* git commit has something to record
Committable(idx, repo) == \E p \in RepoPaths(repo) : idx[p] # head[p]

\* the tree git commit writes from the index idx of repository repo
CommitTree(idx, repo) == [p \in Paths |-> IF p \in RepoPaths(repo) THEN idx[p] ELSE head[p]]

\* a temporary index file: "empty" as tempfile creates it (git refuses a
\* zero-length index), "index" once git read-tree has written it, "removed"
NoTree == [p \in Paths |-> 0]
EmptyFile == [st |-> "empty", tree |-> NoTree]
RemovedFile == [st |-> "removed", tree |-> NoTree]
IndexFile(tree) == [st |-> "index", tree |-> tree]

\* git describe --tags --abbrev=0 --match <pattern>: the matching tags
MatchingTags(repo, prefix) == {t \in tags[repo] : t.prefix = prefix}

LastTagAt(repo, prefix) ==
    LET m == MatchingTags(repo, prefix) IN
    (CHOOSE t \in m : \A u \in m : u.at <= t.at).at

Reverse(s) == [i \in 1..Len(s) |-> s[Len(s) + 1 - i]]

\* the subjects git log prints for the range: <tag>..HEAD, or -1 without a tag
CommitsInRange(repo, prefix) ==
    LET l == log[repo] IN
    IF MatchingTags(repo, prefix) # {}
    THEN Reverse(SubSeq(l, LastTagAt(repo, prefix) + 1, Len(l)))
    ELSE IF Len(l) > 0 THEN <<l[Len(l)]>> ELSE <<>>

\* tag_match: "<prefix>-v*" for a nested project, "v*" otherwise
TagMatch(project) == IF IsNested THEN TagPrefix(project) ELSE ""

(***************************************************************************)
(* Calls: a stack of frames, one per running function.                     *)
(***************************************************************************)
Top == stack[Len(stack)]

Frame(fn, proj, auto_bump, auto_save, dry_run) ==
    [fn |-> fn, proj |-> proj, pc |-> "enter",
     auto_bump |-> auto_bump, auto_save |-> auto_save, dry_run |-> dry_run,
     changed |-> FALSE,      \* the status query reported changes
     msg |-> <<>>,           \* commit_msg
     tmp |-> 0,              \* temp_index: position in tmpFiles
     raising |-> FALSE,      \* an exception is passing through the finally block
     pending |-> "OSError",  \* which exception that is
     cmd |-> "",             \* main: parsed.command
     push |-> FALSE,         \* commit_all: push
     commitRc |-> -1,        \* commit_result.returncode
     cur |-> <<>>,           \* current_version
     new |-> <<>>,           \* new_version
     i |-> 1, saved |-> 0, skipped |-> 0, errors |-> 0,
     pushFail |-> FALSE,     \* a git push of this call exited non-zero
     pushes |-> 0,           \* plain git push invocations of this call
     ncommits |-> 0,         \* len(commits)
     tagRc |-> -1,           \* return code of git tag
     \* what held when the call began: commit and push invocations, index, HEAD
     c0 |-> nCommit, p0 |-> nPush, idx0 |-> index, head0 |-> head]

NoFrame ==
    [Frame("none", "", FALSE, FALSE, FALSE)
        EXCEPT !.c0 = 0, !.p0 = 0, !.idx0 = NoTree, !.head0 = NoTree]

\* the record of a call that ended: its frame, its return code, the exception
\* that left it ("none" when it returned), and the index and the commit and
\* push invocations at that point
Result(f, code, exc, pushes) ==
    [frame |-> f, rc |-> code, exc |-> exc,
     index |-> index, nCommit |-> nCommit, nPush |-> pushes]

NoResult ==
    [frame |-> NoFrame, rc |-> 0, exc |-> "none", index |-> NoTree, nCommit |-> 0, nPush |-> 0]

At(fn, pc) == stack # <<>> /\ last.exc = "none" /\ Top.fn = fn /\ Top.pc = pc

SetTop(f) == stack' = [stack EXCEPT ![Len(stack)] = f]

Goto(pc) == SetTop([Top EXCEPT !.pc = pc])

Pop == SubSeq(stack, 1, Len(stack) - 1)

\* return code
Return(code) ==
    /\ stack' = Pop
    /\ last' = Result(Top, code, "none", nPush)

\* the exception exc leaves the function
RaiseOut(exc) ==
    /\ stack' = Pop
    /\ last' = Result(Top, 1, exc, nPush)

\* call callee and continue at retpc when it returns
Call(callee, retpc) ==
    /\ stack' = Append([stack EXCEPT ![Len(stack)] = [Top EXCEPT !.pc = retpc]], callee)
    /\ UNCHANGED last

\* an exception raised by a callee passes through a caller that has no handler
Propagate ==
    /\ stack # <<>> /\ last.exc # "none"
    /\ Top.fn # "main"
    /\ stack' = Pop
    /\ last' = Result(Top, 1, last.exc, nPush)
    /\ UNCHANGED <<gitVars, envVars, harnessVars>>

(***************************************************************************)
(* The isolated-index commit, as save_project, bump_version and            *)
(* auto_bump_version each spell it out.                                    *)
(***************************************************************************)
TmpFile == tmpFiles[Top.tmp]

\* tempfile.NamedTemporaryFile(prefix="razorcore_index_", delete=False)
CreateTempIndex(next) ==
    /\ tmpFiles' = Append(tmpFiles, EmptyFile)
    /\ SetTop([Top EXCEPT !.tmp = Len(tmpFiles) + 1, !.pc = next])
    /\ UNCHANGED <<head, index, wt, log, tags, pushed, nCommit, nPush, envVars, last, harnessVars>>

\* an exception out of subprocess.run inside the try block: on to finally
RaiseInTry(finally) ==
    /\ SetTop([Top EXCEPT !.raising = TRUE, !.pc = finally])
    /\ UNCHANGED <<gitVars, envVars, last, harnessVars>>

\* git read-tree HEAD, GIT_INDEX_FILE=temp_index
ReadTreeHead(next, finally) ==
    \/ /\ tmpFiles' = [tmpFiles EXCEPT ![Top.tmp] = IndexFile(head)]
       /\ Goto(next)
       /\ UNCHANGED <<head, index, wt, log, tags, pushed, nCommit, nPush, envVars, last, harnessVars>>
    \/ /\ Goto(next)
       /\ UNCHANGED <<gitVars, envVars, last, harnessVars>>
    \/ RaiseInTry(finally)

\* the pathspec of git add in the temporary index, without the project path
StagedPathsAll(project) == RepoPaths(RepoOf(project))

\* the paths `git add -A -- project_rel` stages
StagedPaths(project) == Under(RepoOf(project), project)

\* git add -A -- project_rel, GIT_INDEX_FILE=temp_index
AddProject(next, finally) ==
    \/ /\ TmpFile.st = "index"
       /\ tmpFiles' = [tmpFiles EXCEPT ![Top.tmp] =
                          IndexFile(GitAdd(TmpFile.tree, StagedPaths(Top.proj)))]
       /\ Goto(next)
       /\ UNCHANGED <<head, index, wt, log, tags, pushed, nCommit, nPush, envVars, last, harnessVars>>
    \/ /\ Goto(next)
       /\ UNCHANGED <<gitVars, envVars, last, harnessVars>>
    \/ RaiseInTry(finally)

\* git commit -m msg from the index idx of the project's repository: the
\* commit is made (rc 0) or git exits non-zero and nothing changes
GitCommit(idx, usable, msg, next) ==
    LET repo == RepoOf(Top.proj) IN
    \/ /\ usable /\ Committable(idx, repo)
       /\ head' = CommitTree(idx, repo)
       /\ log' = [log EXCEPT ![repo] = Append(@, msg)]
       /\ nCommit' = nCommit + 1
       /\ SetTop([Top EXCEPT !.commitRc = 0, !.pc = next[1]])
       /\ UNCHANGED <<index, wt, tmpFiles, tags, pushed, nPush, envVars, last, harnessVars>>
    \/ /\ nCommit' = nCommit + 1
       /\ SetTop([Top EXCEPT !.commitRc = 1, !.pc = next[2]])
       /\ UNCHANGED <<head, index, wt, tmpFiles, log, tags, pushed, nPush, envVars, last, harnessVars>>

\* git commit, GIT_INDEX_FILE=temp_index
CommitTemp(msg, next, finally) ==
    \/ GitCommit(TmpFile.tree, TmpFile.st = "index", msg, next)
    \/ RaiseInTry(finally)

\* the pathspec of git reset on the primary index, without the project path
ResetPathsAll(project) == RepoPaths(RepoOf(project))

\* the paths `git reset HEAD -- project_rel` resets in the primary index
ResetPaths(project) == Under(RepoOf(project), project)

\* git reset HEAD -- project_rel, on the primary index
ResetProject(next, finally) ==
    \/ /\ index' = GitReset(index, ResetPaths(Top.proj))
       /\ Goto(next)
       /\ UNCHANGED <<head, wt, tmpFiles, log, tags, pushed, nCommit, nPush, envVars, last, harnessVars>>
    \/ /\ Goto(next)
       /\ UNCHANGED <<gitVars, envVars, last, harnessVars>>
    \/ RaiseInTry(finally)

\* a cleanup that runs only when no exception is passing
RemoveTempIndexOnSuccess(next) ==
    /\ tmpFiles' = IF Top.raising THEN tmpFiles
                   ELSE [tmpFiles EXCEPT ![Top.tmp] = RemovedFile]
    /\ IF Top.raising
       THEN RaiseOut("OSError")
       ELSE Goto(next) /\ UNCHANGED last
    /\ UNCHANGED <<head, index, wt, log, tags, pushed, nCommit, nPush, envVars, harnessVars>>

\* finally: os.remove(temp_index); then the exception, if any, goes on
RemoveTempIndex(next) ==
    /\ tmpFiles' = [tmpFiles EXCEPT ![Top.tmp] = RemovedFile]
    /\ IF Top.raising
       THEN RaiseOut(Top.pending)
       ELSE Goto(next) /\ UNCHANGED last
    /\ UNCHANGED <<head, index, wt, log, tags, pushed, nCommit, nPush, envVars, harnessVars>>

\* git add -A on the primary index (a project that is its own repository)
AddAll(next) ==
    \/ /\ index' = GitAdd(index, RepoPaths(RepoOf(Top.proj)))
       /\ Goto(next)
       /\ UNCHANGED <<head, wt, tmpFiles, log, tags, pushed, nCommit, nPush, envVars, last, harnessVars>>
    \/ /\ Goto(next)
       /\ UNCHANGED <<gitVars, envVars, last, harnessVars>>

\* git push: the remote takes the commits (rc 0), or git exits non-zero
GitPush(onOk, onFail) ==
    LET repo == RepoOf(Top.proj) IN
    \/ /\ pushed' = [pushed EXCEPT ![repo] = Len(log[repo])]
       /\ nPush' = nPush + 1
       /\ onOk
       /\ UNCHANGED <<head, index, wt, tmpFiles, log, tags, nCommit, envVars, harnessVars>>
    \/ /\ nPush' = nPush + 1
       /\ onFail
       /\ UNCHANGED <<head, index, wt, tmpFiles, log, tags, pushed, nCommit, envVars, harnessVars>>

(***************************************************************************)
(* save_project                                                            *)
(***************************************************************************)
\* commit messages the synthesizer produces for the modelled change sets:
\* "chore: update main.py" and "feat(src): add main.py"
MsgChore == <<"c","h","o","r","e",":"," ","u","p","d","a","t","e"," ","m","a","i","n",".","p","y">>
MsgFeat == <<"f","e","a","t","(","s","r","c",")",":"," ","a","d","d"," ","m","a","i","n",".","p","y">>

\* commit_type from the diff of main.py: feat when it shows "def " and "+"
GeneratedMessage == IF pyDiff = "def" THEN MsgFeat ELSE MsgChore

\* the paths of the status query: `-- project_rel` for a nested project
StatusPaths(project) ==
    IF IsNested THEN Under(RepoOf(project), project) ELSE RepoPaths(RepoOf(project))

\* proj_dir.exists(), git rev-parse, project_rel
SaveEnter ==
    /\ At("save_project", "enter")
    /\ IF Top.proj \in ExistingProjects
       THEN Goto("status") /\ UNCHANGED last
       ELSE Return(1)
    /\ UNCHANGED <<gitVars, envVars, harnessVars>>

\* a cascade for every project that asks for it, .razorcore included
CascadesWhenAsked(f) == f.auto_save

\* the cascade condition: auto_save_razorcore and project != ".razorcore"
CascadesAlways(f) == f.proj # ".razorcore"

Cascades(f) == f.auto_save /\ f.proj # ".razorcore"

\* the status query; with no changes: the cascade, or return 0
SaveStatus ==
    /\ At("save_project", "status")
    /\ \/ /\ ~HasChanges(StatusPaths(Top.proj))
          /\ IF Cascades(Top)
             THEN Call(Frame("_maybe_auto_save_razorcore", ".razorcore", FALSE, FALSE, FALSE),
                       "nochange_ret")
             ELSE Return(0)
       \/ /\ HasChanges(StatusPaths(Top.proj))
          /\ SetTop([Top EXCEPT !.changed = TRUE, !.msg = GeneratedMessage,
                                !.pc = IF IsNested THEN "tmp" ELSE "add_all"])
          /\ UNCHANGED last
    /\ UNCHANGED <<gitVars, envVars, harnessVars>>

\* if razorcore_save_result != 0: return 1; return 0
SaveNoChangeReturn ==
    /\ At("save_project", "nochange_ret")
    /\ Return(IF last.rc # 0 THEN 1 ELSE 0)
    /\ UNCHANGED <<gitVars, envVars, harnessVars>>

SaveTemp == At("save_project", "tmp") /\ CreateTempIndex("read_tree")

SaveReadTree == At("save_project", "read_tree") /\ ReadTreeHead("add", "finally")

SaveAdd == At("save_project", "add") /\ AddProject("commit", "finally")

\* the commit; git reset runs only if commit_result.returncode == 0
SaveCommit ==
    /\ At("save_project", "commit")
    /\ CommitTemp(Top.msg, <<"reset", "finally">>, "finally")

SaveReset == At("save_project", "reset") /\ ResetProject("finally", "finally")

SaveFinally == At("save_project", "finally") /\ RemoveTempIndex("committed")

SaveAddAll == At("save_project", "add_all") /\ AddAll("commit_plain")

SaveCommitPlain ==
    /\ At("save_project", "commit_plain")
    /\ GitCommit(index, TRUE, Top.msg, <<"committed", "committed">>)

\* a save that goes on to push whatever the commit returned
SaveCommittedAnyway ==
    /\ At("save_project", "committed")
    /\ Goto("push") /\ UNCHANGED last
    /\ UNCHANGED <<gitVars, envVars, harnessVars>>

\* if commit_result.returncode != 0: return 1
SaveCommitted ==
    /\ At("save_project", "committed")
    /\ IF Top.commitRc # 0
       THEN Return(1)
       ELSE Goto("push") /\ UNCHANGED last
    /\ UNCHANGED <<gitVars, envVars, harnessVars>>

\* git push; a failed push returns 1
SavePush ==
    /\ At("save_project", "push")
    /\ GitPush(SetTop([Top EXCEPT !.pushes = @ + 1, !.pc = "bump"]) /\ UNCHANGED last,
               /\ stack' = Pop
               /\ last' = Result([Top EXCEPT !.pushFail = TRUE, !.pushes = @ + 1],
                                  1, "none", nPush + 1))

\* if auto_bump and pyproject.exists(): auto_bump_version(workspace, project)
SaveBump ==
    /\ At("save_project", "bump")
    /\ IF Top.auto_bump /\ PyExists(wt[<<Top.proj, "pyproject.toml">>])
       THEN Call(Frame("auto_bump_version", Top.proj, FALSE, FALSE, FALSE), "cascade")
       ELSE Goto("cascade") /\ UNCHANGED last
    /\ UNCHANGED <<gitVars, envVars, harnessVars>>

\* if auto_save_razorcore and project != ".razorcore": _maybe_auto_save_razorcore
SaveCascade ==
    /\ At("save_project", "cascade")
    /\ IF Cascades(Top)
       THEN Call(Frame("_maybe_auto_save_razorcore", ".razorcore", FALSE, FALSE, FALSE), "done")
       ELSE Goto("done") /\ UNCHANGED last
    /\ UNCHANGED <<gitVars, envVars, harnessVars>>

\* return 0
SaveDone ==
    /\ At("save_project", "done")
    /\ Return(0)
    /\ UNCHANGED <<gitVars, envVars, harnessVars>>

(***************************************************************************)
(* _maybe_auto_save_razorcore                                              *)
(***************************************************************************)
\* razorcore_dir.exists(); git status --porcelain in .razorcore; save_project
MaybeEnter ==
    /\ At("_maybe_auto_save_razorcore", "enter")
    /\ IF ".razorcore" \notin ExistingProjects
          \/ ~HasChanges(RepoPaths(RepoOf(".razorcore")))
       THEN Return(0)
       ELSE Call(Frame("save_project", ".razorcore", TRUE, FALSE, FALSE), "ret")
    /\ UNCHANGED <<gitVars, envVars, harnessVars>>

\* return save_project(...)
MaybeReturn ==
    /\ At("_maybe_auto_save_razorcore", "ret")
    /\ Return(last.rc)
    /\ UNCHANGED <<gitVars, envVars, harnessVars>>

(***************************************************************************)
(* save_all                                                                *)
(***************************************************************************)
\* one pass of `for name in MANAGED_PROJECTS` up to the call of save_project
SaveAllLoop ==
    /\ At("save_all", "enter")
    /\ Top.i <= Len(MANAGED_PROJECTS)
    /\ LET name == MANAGED_PROJECTS[Top.i] IN
       IF name \notin ExistingProjects
       THEN SetTop([Top EXCEPT !.i = @ + 1]) /\ UNCHANGED last
       ELSE IF ~HasChanges(RepoPaths(RepoOf(name)))
       THEN SetTop([Top EXCEPT !.i = @ + 1, !.skipped = @ + 1]) /\ UNCHANGED last
       ELSE Call(Frame("save_project", name, TRUE, FALSE, FALSE), "ret")
    /\ UNCHANGED <<gitVars, envVars, harnessVars>>

\* a loop that gives up at the first project whose save fails
SaveAllTallyStop ==
    /\ At("save_all", "ret")
    /\ IF last.rc = 0
       THEN SetTop([Top EXCEPT !.saved = @ + 1, !.i = @ + 1, !.pc = "enter"])
       ELSE SetTop([Top EXCEPT !.errors = @ + 1, !.i = Len(MANAGED_PROJECTS) + 1,
                               !.pc = "enter"])
    /\ UNCHANGED <<gitVars, envVars, last, harnessVars>>

\* if result == 0: saved += 1 else: errors += 1
SaveAllTally ==
    /\ At("save_all", "ret")
    /\ IF last.rc = 0
       THEN SetTop([Top EXCEPT !.saved = @ + 1, !.i = @ + 1, !.pc = "enter"])
       ELSE SetTop([Top EXCEPT !.errors = @ + 1, !.i = @ + 1, !.pc = "enter"])
    /\ UNCHANGED <<gitVars, envVars, last, harnessVars>>

\* return 1 if errors > 0 else 0
SaveAllDone ==
    /\ At("save_all", "enter")
    /\ Top.i > Len(MANAGED_PROJECTS)
    /\ Return(IF Top.errors > 0 THEN 1 ELSE 0)
    /\ UNCHANGED <<gitVars, envVars, harnessVars>>

(***************************************************************************)
(* What bump_version and auto_bump_version share.                          *)
(***************************************************************************)
BumpMsgPrefix == <<"c","h","o","r","e",":"," ","b","u","m","p"," ","v","e","r","s","i","o","n"," ","t","o"," ">>

\* f"chore: bump version to {new_version}"
BumpMessage(new_version) == BumpMsgPrefix \o new_version

\* git tag -a tag_name at HEAD: made unless the name is taken, or git fails
GitTag(next) ==
    LET repo == RepoOf(Top.proj)
        name == [prefix |-> TagMatch(Top.proj), ver |-> Top.new] IN
    \/ /\ \A t \in tags[repo] : [prefix |-> t.prefix, ver |-> t.ver] # name
       /\ tags' = [tags EXCEPT ![repo] = @ \cup
                       {[prefix |-> name.prefix, ver |-> name.ver, at |-> Len(log[repo])]}]
       /\ SetTop([Top EXCEPT !.tagRc = 0, !.pc = next])
       /\ UNCHANGED <<head, index, wt, tmpFiles, log, pushed, nCommit, nPush, envVars, last, harnessVars>>
    \/ /\ SetTop([Top EXCEPT !.tagRc = 1, !.pc = next])
       /\ UNCHANGED <<gitVars, envVars, last, harnessVars>>

\* git push --tags: the tags go to the remote (rc 0), or git exits non-zero
GitPushTags(onOk, onFail) ==
    \/ /\ nPush' = nPush + 1
       /\ onOk
       /\ UNCHANGED <<head, index, wt, tmpFiles, log, tags, pushed, nCommit, envVars, harnessVars>>
    \/ /\ nPush' = nPush + 1
       /\ onFail
       /\ UNCHANGED <<head, index, wt, tmpFiles, log, tags, pushed, nCommit, envVars, harnessVars>>

(***************************************************************************)
(* bump_version                                                        *)
(***************************************************************************)
\* proj_dir.exists(), pyproject.exists(), current_version
BumpEnter ==
    /\ At("bump_version", "enter")
    /\ IF Top.proj \notin ExistingProjects \/ ~PyExists(wt[<<Top.proj, "pyproject.toml">>])
       THEN Return(1)
       ELSE /\ SetTop([Top EXCEPT !.cur = PyVersion(wt[<<Top.proj, "pyproject.toml">>]),
                                  !.pc = "plan"])
            /\ UNCHANGED last
    /\ UNCHANGED <<gitVars, envVars, harnessVars>>

\* a plan that goes on to the rewrite whatever dry_run says
BumpPlanNoDryRun ==
    /\ At("bump_version", "plan")
    /\ LET commits == CommitsInRange(RepoOf(Top.proj), TagMatch(Top.proj)) IN
       IF commits = <<>> THEN Return(0)
       ELSE IF ParseOutcome(Top.cur) = "invalid"
       THEN stack' = Pop /\ last' = Result([Top EXCEPT !.ncommits = Len(commits)], 1, "none", nPush)
       ELSE IF ParseOutcome(Top.cur) = "ValueError"
       THEN stack' = Pop /\ last' = Result([Top EXCEPT !.ncommits = Len(commits)], 1, "ValueError", nPush)
       ELSE /\ SetTop([Top EXCEPT !.new = NewVersion(Top.cur, BumpType(commits)),
                                  !.ncommits = Len(commits), !.pc = "write"])
            /\ UNCHANGED last
    /\ UNCHANGED <<gitVars, envVars, harnessVars>>

\* the commits of the range, bump_type, the parsed version, new_version, dry_run
BumpPlan ==
    /\ At("bump_version", "plan")
    /\ LET commits == CommitsInRange(RepoOf(Top.proj), TagMatch(Top.proj)) IN
       IF commits = <<>> THEN Return(0)
       ELSE IF ParseOutcome(Top.cur) = "invalid"
       THEN stack' = Pop /\ last' = Result([Top EXCEPT !.ncommits = Len(commits)], 1, "none", nPush)
       ELSE IF ParseOutcome(Top.cur) = "ValueError"
       THEN stack' = Pop /\ last' = Result([Top EXCEPT !.ncommits = Len(commits)], 1, "ValueError", nPush)
       ELSE IF Top.dry_run
       THEN /\ stack' = Pop
            /\ last' = Result([Top EXCEPT !.new = NewVersion(Top.cur, BumpType(commits)),
                                          !.ncommits = Len(commits)], 0, "none", nPush)
       ELSE /\ SetTop([Top EXCEPT !.new = NewVersion(Top.cur, BumpType(commits)),
                                  !.ncommits = Len(commits), !.pc = "write"])
            /\ UNCHANGED last
    /\ UNCHANGED <<gitVars, envVars, harnessVars>>

\* pyproject.write_text(content.replace(...))
BumpWrite ==
    /\ At("bump_version", "write")
    /\ wt' = [wt EXCEPT ![<<Top.proj, "pyproject.toml">>] = PyReplace(@, Top.cur, Top.new)]
    /\ Goto(IF IsNested THEN "tmp" ELSE "add_all")
    /\ UNCHANGED <<head, index, tmpFiles, log, tags, pushed, nCommit, nPush, envVars, last, harnessVars>>

BumpTemp == At("bump_version", "tmp") /\ CreateTempIndex("read_tree")

BumpReadTree == At("bump_version", "read_tree") /\ ReadTreeHead("add", "finally")

BumpAdd == At("bump_version", "add") /\ AddProject("commit", "finally")

\* the commit; its return code is not looked at
BumpCommit ==
    /\ At("bump_version", "commit")
    /\ CommitTemp(BumpMessage(Top.new), <<"reset", "reset">>, "finally")

BumpReset == At("bump_version", "reset") /\ ResetProject("finally", "finally")

BumpFinally == At("bump_version", "finally") /\ RemoveTempIndex("tag")

BumpAddAll == At("bump_version", "add_all") /\ AddAll("commit_plain")

BumpCommitPlain ==
    /\ At("bump_version", "commit_plain")
    /\ GitCommit(index, TRUE, BumpMessage(Top.new), <<"tag", "tag">>)

\* git tag -a tag_name; its return code is not looked at
BumpTag == At("bump_version", "tag") /\ GitTag("push")

\* a push whose failure takes the tag of the new version back
BumpPushRollback ==
    /\ At("bump_version", "push")
    /\ LET repo == RepoOf(Top.proj) IN
       \/ /\ pushed' = [pushed EXCEPT ![repo] = Len(log[repo])]
          /\ SetTop([Top EXCEPT !.pushes = @ + 1, !.pc = "push_tags"])
          /\ UNCHANGED <<tags, last>>
       \/ /\ tags' = [tags EXCEPT ![repo] = {t \in @ : t.ver # Top.new}]
          /\ stack' = Pop
          /\ last' = Result([Top EXCEPT !.pushFail = TRUE, !.pushes = @ + 1],
                             1, "none", nPush + 1)
          /\ UNCHANGED pushed
    /\ nPush' = nPush + 1
    /\ UNCHANGED <<head, index, wt, tmpFiles, log, nCommit, envVars, harnessVars>>

\* git push; a failed push returns 1
BumpPush ==
    /\ At("bump_version", "push")
    /\ GitPush(SetTop([Top EXCEPT !.pushes = @ + 1, !.pc = "push_tags"]) /\ UNCHANGED last,
               /\ stack' = Pop
               /\ last' = Result([Top EXCEPT !.pushFail = TRUE, !.pushes = @ + 1],
                                  1, "none", nPush + 1))

\* git push --tags; a failed push returns 1, a good one 0
BumpPushTags ==
    /\ At("bump_version", "push_tags")
    /\ GitPushTags(stack' = Pop /\ last' = Result(Top, 0, "none", nPush + 1),
                   /\ stack' = Pop
                   /\ last' = Result([Top EXCEPT !.pushFail = TRUE], 1, "none", nPush + 1))

(***************************************************************************)
(* auto_bump_version                                                        *)
(***************************************************************************)
\* pyproject.exists(), current_version
AutoEnter ==
    /\ At("auto_bump_version", "enter")
    /\ IF ~PyExists(wt[<<Top.proj, "pyproject.toml">>])
       THEN Return(1)
       ELSE /\ SetTop([Top EXCEPT !.cur = PyVersion(wt[<<Top.proj, "pyproject.toml">>]),
                                  !.pc = "plan"])
            /\ UNCHANGED last
    /\ UNCHANGED <<gitVars, envVars, harnessVars>>

\* the commits of the range, bump_type, the parsed version, new_version
AutoPlan ==
    /\ At("auto_bump_version", "plan")
    /\ LET commits == CommitsInRange(RepoOf(Top.proj), TagMatch(Top.proj)) IN
       IF commits = <<>> THEN Return(1)
       ELSE IF ParseOutcome(Top.cur) = "invalid"
       THEN stack' = Pop /\ last' = Result([Top EXCEPT !.ncommits = Len(commits)], 1, "none", nPush)
       ELSE IF ParseOutcome(Top.cur) = "ValueError"
       THEN stack' = Pop /\ last' = Result([Top EXCEPT !.ncommits = Len(commits)], 1, "ValueError", nPush)
       ELSE /\ SetTop([Top EXCEPT !.new = NewVersion(Top.cur, BumpType(commits)),
                                  !.ncommits = Len(commits), !.pc = "write"])
            /\ UNCHANGED last
    /\ UNCHANGED <<gitVars, envVars, harnessVars>>

\* pyproject.write_text(content.replace(...))
AutoWrite ==
    /\ At("auto_bump_version", "write")
    /\ wt' = [wt EXCEPT ![<<Top.proj, "pyproject.toml">>] = PyReplace(@, Top.cur, Top.new)]
    /\ Goto(IF IsNested THEN "tmp" ELSE "add_all")
    /\ UNCHANGED <<head, index, tmpFiles, log, tags, pushed, nCommit, nPush, envVars, last, harnessVars>>

AutoTemp == At("auto_bump_version", "tmp") /\ CreateTempIndex("read_tree")

AutoReadTree == At("auto_bump_version", "read_tree") /\ ReadTreeHead("add", "finally")

AutoAdd == At("auto_bump_version", "add") /\ AddProject("commit", "finally")

\* the commit; its return code is not looked at
AutoCommit ==
    /\ At("auto_bump_version", "commit")
    /\ CommitTemp(BumpMessage(Top.new), <<"reset", "reset">>, "finally")

AutoReset == At("auto_bump_version", "reset") /\ ResetProject("finally", "finally")

AutoFinally == At("auto_bump_version", "finally") /\ RemoveTempIndex("tag")

AutoAddAll == At("auto_bump_version", "add_all") /\ AddAll("commit_plain")

AutoCommitPlain ==
    /\ At("auto_bump_version", "commit_plain")
    /\ GitCommit(index, TRUE, BumpMessage(Top.new), <<"tag", "tag">>)

\* git tag -a tag_name; its return code is not looked at
AutoTag == At("auto_bump_version", "tag") /\ GitTag("push")

\* git push; its return code is not looked at
AutoPush ==
    /\ At("auto_bump_version", "push")
    /\ GitPush(SetTop([Top EXCEPT !.pushes = @ + 1, !.pc = "push_tags"]) /\ UNCHANGED last,
               /\ SetTop([Top EXCEPT !.pushFail = TRUE, !.pushes = @ + 1, !.pc = "push_tags"])
               /\ UNCHANGED last)

\* git push --tags; its return code is not looked at; return 0
AutoPushTags ==
    /\ At("auto_bump_version", "push_tags")
    /\ GitPushTags(stack' = Pop /\ last' = Result(Top, 0, "none", nPush + 1),
                   /\ stack' = Pop
                   /\ last' = Result([Top EXCEPT !.pushFail = TRUE], 0, "none", nPush + 1))

(***************************************************************************)
(* The commands: initial states and next-state relation.                   *)
(***************************************************************************)
V123 == <<"1",".","2",".","3">>
V12x == <<"1",".","2",".","x">>
V12 == <<"1",".","2">>
V199 == <<"1",".","9",".","9">>
V099 == <<"0",".","9",".","9">>

SubjFixY == <<"f","i","x",":"," ","Y">>
SubjBang == <<"!","d","r","o","p"," ","a","p","i">>

\* a pending state of one source path: what the index and the working tree hold
\* (HEAD holds 1)
PathStates == [idx : Contents, wt : Contents]
Clean == [idx |-> 1, wt |-> 1]

Modified == [idx |-> 1, wt |-> 2]
Staged == [idx |-> 2, wt |-> 2]

SaveEntry(project, auto_save) ==
    [fn |-> "save_project", proj |-> project, auto_save |-> auto_save, dry_run |-> FALSE]
SaveAllEntry == [fn |-> "save_all", proj |-> "", auto_save |-> FALSE, dry_run |-> FALSE]
BumpEntry(project, dry_run) ==
    [fn |-> "bump_version", proj |-> project, auto_save |-> FALSE, dry_run |-> dry_run]

\* `razorcore save 4Charm` over every pending state of every path, in
\* projects without a pyproject.toml
RepoScenarios ==
    [layout : {"mono", "standalone"},
     src : [SrcPaths -> PathStates],
     py4 : {AbsentPy}, pyrc : {AbsentPy},
     log : {<<SubjFixY>>}, tagged : {FALSE}, pyDiff : {"plain"},
     entry : {SaveEntry("4Charm", TRUE)}]

\* every command over the version texts and histories, with an unrelated
\* staged change in notes/ and modified or clean project sources
BumpScenarios ==
    [layout : {"mono", "standalone"},
     src : {f \in [SrcPaths -> {Clean, Modified, Staged}] :
               /\ f[<<"notes", "todo.md">>] = Staged
               /\ f[<<"4Charm", "main.py">>] # Staged
               /\ f[<<".razorcore", "main.py">>] # Staged},
     py4 : {SpacedPy(V123), SpacedPy(V12x), SpacedPy(V12), TightPy(V199), AbsentPy},
     pyrc : {AbsentPy, SpacedPy(V099)},
     log : {<<SubjFixY>>, <<SubjFixY, SubjBang>>}, tagged : BOOLEAN, pyDiff : {"plain", "def"},
     entry : {SaveEntry("4Charm", TRUE), SaveEntry("Nexus", TRUE), SaveAllEntry,
              BumpEntry("4Charm", FALSE), BumpEntry("4Charm", TRUE), BumpEntry("Nexus", FALSE)}]

Scenarios ==
    {sc \in RepoScenarios \cup BumpScenarios :
        sc.layout = "standalone" => sc.src[<<"notes", "todo.md">>] = Staged}

InitHarnessIdle ==
    /\ inTriple = <<>> /\ inVersion = <<>> /\ inCommits = <<>>
    /\ outBump = "idle" /\ outVersion = <<>>
    /\ statusIn = <<>> /\ plan = <<>>
    /\ worker = <<>> /\ upd = <<>> /\ hooks = <<>> /\ batch = <<>>

\* the workspace of scenario sc, and the command it enters
InitOf(sc) ==
        /\ layout = sc.layout
        /\ pyDiff = sc.pyDiff
        /\ head = [p \in Paths |->
                     IF p \in SrcPaths THEN 1
                     ELSE IF p[1] = "4Charm" THEN sc.py4 ELSE sc.pyrc]
        /\ index = [p \in Paths |-> IF p \in SrcPaths THEN sc.src[p].idx ELSE head[p]]
        /\ wt = [p \in Paths |-> IF p \in SrcPaths THEN sc.src[p].wt ELSE head[p]]
        /\ log = [r \in Repos |-> sc.log]
        /\ tags = [r \in Repos |->
                     IF sc.tagged /\ r = (IF sc.layout = "mono" THEN "ws" ELSE "4Charm")
                     THEN {[prefix |-> IF sc.layout = "mono" THEN "4Charm" ELSE "",
                            ver |-> V123, at |-> 1]}
                     ELSE {}]
        /\ pushed = [r \in Repos |-> Len(sc.log)]
        /\ tmpFiles = <<>>
        /\ nCommit = 0 /\ nPush = 0
        /\ last = NoResult
        /\ stack = <<[Frame(sc.entry.fn, sc.entry.proj, TRUE, sc.entry.auto_save, sc.entry.dry_run)
                        EXCEPT !.c0 = 0, !.p0 = 0,
                               !.idx0 = [p \in Paths |-> IF p \in SrcPaths THEN sc.src[p].idx
                                                         ELSE IF p[1] = "4Charm" THEN sc.py4
                                                         ELSE sc.pyrc],
                               !.head0 = [p \in Paths |-> IF p \in SrcPaths THEN 1
                                                          ELSE IF p[1] = "4Charm" THEN sc.py4
                                                          ELSE sc.pyrc]]>>

Init ==
    /\ \E sc \in Scenarios : InitOf(sc)
    /\ InitHarnessIdle

Next ==
    \/ Propagate
    \/ SaveEnter \/ SaveStatus \/ SaveNoChangeReturn
    \/ SaveTemp \/ SaveReadTree \/ SaveAdd \/ SaveCommit \/ SaveReset \/ SaveFinally
    \/ SaveAddAll \/ SaveCommitPlain
    \/ SaveCommitted \/ SavePush \/ SaveBump \/ SaveCascade \/ SaveDone
    \/ MaybeEnter \/ MaybeReturn
    \/ SaveAllLoop \/ SaveAllTally \/ SaveAllDone
    \/ BumpEnter \/ BumpPlan \/ BumpWrite
    \/ BumpTemp \/ BumpReadTree \/ BumpAdd \/ BumpCommit \/ BumpReset \/ BumpFinally
    \/ BumpAddAll \/ BumpCommitPlain \/ BumpTag \/ BumpPush \/ BumpPushTags
    \/ AutoEnter \/ AutoPlan \/ AutoWrite
    \/ AutoTemp \/ AutoReadTree \/ AutoAdd \/ AutoCommit \/ AutoReset \/ AutoFinally
    \/ AutoAddAll \/ AutoCommitPlain \/ AutoTag \/ AutoPush \/ AutoPushTags

Spec == Init /\ [][Next]_vars

\* one save_project call, with and without auto_save_razorcore, for a project
\* and for .razorcore itself
SaveScenarios ==
    [layout : {"mono", "standalone"},
     src : {f \in [SrcPaths -> {Clean, Modified}] : f[<<"notes", "todo.md">>] = Clean},
     py4 : {SpacedPy(V123), SpacedPy(V12x), AbsentPy},
     pyrc : {AbsentPy, SpacedPy(V099)},
     log : {<<SubjFixY>>}, tagged : {FALSE}, pyDiff : {"plain"},
     entry : {SaveEntry("4Charm", TRUE), SaveEntry("4Charm", FALSE),
              SaveEntry(".razorcore", TRUE)}]

InitSave ==
    /\ \E sc \in SaveScenarios : InitOf(sc)
    /\ InitHarnessIdle

NextSave ==
    \/ Propagate
    \/ SaveEnter \/ SaveStatus \/ SaveNoChangeReturn
    \/ SaveTemp \/ SaveReadTree \/ SaveAdd \/ SaveCommit \/ SaveReset \/ SaveFinally
    \/ SaveAddAll \/ SaveCommitPlain
    \/ SaveCommitted \/ SavePush \/ SaveBump \/ SaveCascade \/ SaveDone
    \/ MaybeEnter \/ MaybeReturn
    \/ AutoEnter \/ AutoPlan \/ AutoWrite
    \/ AutoTemp \/ AutoReadTree \/ AutoAdd \/ AutoCommit \/ AutoReset \/ AutoFinally
    \/ AutoAddAll \/ AutoCommitPlain \/ AutoTag \/ AutoPush \/ AutoPushTags

\* every git invocation returns and the interpreter goes on: a step that is
\* possible is taken
SpecSave == InitSave /\ [][NextSave]_vars /\ WF_vars(NextSave)

(***************************************************************************)
(* The version computation of bump_version and auto_bump_version on its    *)
(* own: bump_type from commits, then new_version from current_version.     *)
(***************************************************************************)
SubjFeat == <<"f","e","a","t",":"," ","a","d","d"," ","X">>
SubjRandom == <<"r","a","n","d","o","m"," ","c","h","a","n","g","e">>
SubjBreaking == <<"B","R","E","A","K","I","N","G"," ","C","H","A","N","G","E",":"," ","r","e","m","o","v","e","d"," ","A","P","I">>
SubjFeatScope == <<"f","e","a","t","(","u","i",")",":"," ","z">>
SubjFeature == <<"f","e","a","t","u","r","e"," ","x">>
SubjMidBreak == <<"f","i","x",":"," ","a"," ","B","r","e","a","k","i","n","g"," ","C","h","a","n","g","e">>
SubjUpperFeat == <<"F","e","a","t",":"," ","q">>
SubjLateBang == <<"f","i","x","!",":"," ","w">>

Subjects ==
    {SubjFeat, SubjFixY, SubjRandom, SubjBreaking, SubjBang, SubjFeatScope,
     SubjFeature, SubjMidBreak, SubjUpperFeat, SubjLateBang}

CommitLists == UNION {[1..k -> Subjects] : k \in 1..MaxCommits}

V200 == <<"2",".","0",".","0">>
V1234 == <<"1",".","2",".","3",".","4">>
VEmptyPart == <<"1",".",".","3">>
VNegative == <<"1",".","2",".","-","3">>

Triples == {<<a, b, c>> : a, b, c \in 0..MaxComp}

\* version texts that are not three numbers
IllFormedVersions == {V12, V1234, V12x, VEmptyPart, VNegative}

InitBump ==
    /\ \/ /\ inTriple \in Triples
          /\ inVersion = FormatVersion(inTriple)
          /\ inCommits \in {<<SubjFixY>>, <<SubjFeat>>, <<SubjBreaking>>}
       \/ /\ inTriple \in {<<1, 2, 3>>, <<2, 0, 0>>}
          /\ inVersion = FormatVersion(inTriple)
          /\ inCommits \in CommitLists
       \/ /\ inTriple = <<>>
          /\ inVersion \in IllFormedVersions
          /\ inCommits \in {<<SubjFixY>>, <<SubjFeat>>, <<SubjBreaking>>}
    /\ outBump = "" /\ outVersion = <<>>
    /\ statusIn = <<>> /\ plan = <<>>
    /\ worker = <<>> /\ upd = <<>> /\ hooks = <<>> /\ batch = <<>>
    /\ layout = "mono" /\ pyDiff = "plain"
    /\ head = NoTree /\ index = NoTree /\ wt = NoTree
    /\ tmpFiles = <<>>
    /\ log = [r \in Repos |-> <<>>] /\ tags = [r \in Repos |-> {}]
    /\ pushed = [r \in Repos |-> 0]
    /\ nCommit = 0 /\ nPush = 0
    /\ stack = <<>>
    /\ last = NoResult

\* for commit in commits: ...
Classify ==
    /\ outBump = ""
    /\ outBump' = BumpType(inCommits)
    /\ UNCHANGED <<inTriple, inVersion, inCommits, outVersion, msgVars, libVars, gitVars, callVars>>

\* parts = current_version.split("."), the increment and new_version; or how
\* the parse ends: <<"invalid">> (return 1) or <<"ValueError">>
ParseAndBump ==
    /\ outBump \in {"major", "minor", "patch"}
    /\ outVersion = <<>>
    /\ outVersion' = IF ParseOutcome(inVersion) = "ok"
                     THEN NewVersion(inVersion, outBump)
                     ELSE <<ParseOutcome(inVersion)>>
    /\ UNCHANGED <<inTriple, inVersion, inCommits, outBump, msgVars, libVars, gitVars, callVars>>

NextBump == Classify \/ ParseAndBump

SpecBump == InitBump /\ [][NextBump]_vars

(***************************************************************************)
(* The commit range of the bump commands: bump_version and                 *)
(* auto_bump_version of .razorcore, and bump_version of the razorcore      *)
(* package the command line imports.                                       *)
(***************************************************************************)
\* git describe --tags --abbrev=0 and git log <range> of that bump_version:
\* any tag counts, and without a tag the range is HEAD, the whole history
CommitsInRangeAnyTag(repo) ==
    LET l == log[repo] IN
    IF tags[repo] # {}
    THEN Reverse(SubSeq(l, (CHOOSE t \in tags[repo] : \A u \in tags[repo] : u.at <= t.at).at + 1,
                        Len(l)))
    ELSE Reverse(l)

\* histories of one to MaxCommits + 1 commits
Histories == UNION {[1..k -> {SubjFixY, SubjFeat, SubjBang}] : k \in 1..(MaxCommits + 1)}

\* a prefix the tag pattern of 4Charm does not match
OtherPrefix == IF layout = "mono" THEN "razorcore" ELSE "4Charm"

rangeRest == <<inTriple, inVersion, outVersion, msgVars, libVars, gitVars, callVars>>

\* a repository with a history and no tag, a tag of 4Charm, a tag of another
\* project, or both
InitRange ==
    /\ layout \in {"mono", "standalone"}
    /\ pyDiff = "plain"
    /\ head = NoTree /\ index = NoTree /\ wt = NoTree
    /\ tmpFiles = <<>>
    /\ \E h \in Histories :
       \E own, other \in 0..Len(h) :
          /\ own # other \/ own = 0
          /\ log = [r \in Repos |-> IF r = RepoOf("4Charm") THEN h ELSE <<>>]
          /\ tags = [r \in Repos |->
                       IF r = RepoOf("4Charm")
                       THEN (IF own = 0 THEN {}
                             ELSE {[prefix |-> TagMatch("4Charm"), ver |-> V123, at |-> own]})
                            \cup (IF other = 0 THEN {}
                                  ELSE {[prefix |-> OtherPrefix, ver |-> V123, at |-> other]})
                       ELSE {}]
    /\ pushed = [r \in Repos |-> 0]
    /\ nCommit = 0 /\ nPush = 0
    /\ inTriple = <<>> /\ inVersion = <<>> /\ outVersion = <<>>
    /\ inCommits = <<>> /\ outBump = "range"
    /\ statusIn = <<>> /\ plan = <<>>
    /\ worker = <<>> /\ upd = <<>> /\ hooks = <<>> /\ batch = <<>>
    /\ stack = <<>>
    /\ last = NoResult

\* commits of bump_version
RangeBump ==
    /\ outBump = "range"
    /\ inCommits' = CommitsInRange(RepoOf("4Charm"), TagMatch("4Charm"))
    /\ outBump' = "bump_version"
    /\ UNCHANGED rangeRest

\* commits of auto_bump_version
RangeAuto ==
    /\ outBump = "range"
    /\ inCommits' = CommitsInRange(RepoOf("4Charm"), TagMatch("4Charm"))
    /\ outBump' = "auto_bump_version"
    /\ UNCHANGED rangeRest

\* commits of the bump_version behind `razorcore bump`
RangeCli ==
    /\ outBump = "range"
    /\ inCommits' = CommitsInRangeAnyTag(RepoOf("4Charm"))
    /\ outBump' = "cli"
    /\ UNCHANGED rangeRest

NextRange == RangeBump \/ RangeAuto \/ RangeCli

SpecRange == InitRange /\ [][NextRange]_vars

(***************************************************************************)
(* The commit message of save_project: from the text git status printed to *)
(* commit_type, scope and desc.                                            *)
(***************************************************************************)
\* longest list of status lines handed to the synthesizer (besides the four
\* lines of the section 8 scenario)
MaxLines == 2

IsSpace(c) == c \in {" ", "\n", "\t"}

RECURSIVE LStrip(_)
LStrip(s) == IF s # <<>> /\ IsSpace(Head(s)) THEN LStrip(Tail(s)) ELSE s

RECURSIVE RStrip(_)
RStrip(s) == IF s # <<>> /\ IsSpace(s[Len(s)]) THEN RStrip(SubSeq(s, 1, Len(s) - 1)) ELSE s

\* str.strip()
Strip(s) == RStrip(LStrip(s))

\* s[:k] and s[k:]
SliceTo(s, k) == SubSeq(s, 1, IF k < Len(s) THEN k ELSE Len(s))
SliceFrom(s, k) == SubSeq(s, k + 1, Len(s))

\* str.endswith(suffix)
EndsWith(s, suffix) ==
    /\ Len(suffix) <= Len(s)
    /\ SubSeq(s, Len(s) - Len(suffix) + 1, Len(s)) = suffix

\* sep.join(items)
RECURSIVE Join(_, _)
Join(items, sep) ==
    IF items = <<>> THEN <<>>
    ELSE IF Len(items) = 1 THEN items[1]
    ELSE items[1] \o sep \o Join(Tail(items), sep)

\* what git status --porcelain writes: every line and its newline
RECURSIVE Stdout(_)
Stdout(lines) == IF lines = <<>> THEN <<>> ELSE Head(lines) \o <<"\n">> \o Stdout(Tail(lines))

\* changes = status_result.stdout.strip().split("\n"), without the blank ones
Changes(lines) ==
    LET IsChange(change) == Strip(change) # <<>> IN
    SelectSeq(Split(Strip(Stdout(lines)), "\n"), IsChange)

\* status = change[:2].strip(); filename = change[3:].strip()
StatusOf(change) == Strip(SliceTo(change, 2))
FilenameOf(change) == Strip(SliceFrom(change, 3))

\* the list a change is appended to
ListOf(change) ==
    IF Contains(StatusOf(change), <<"A">>) \/ Contains(StatusOf(change), <<"?">>) THEN "added"
    ELSE IF Contains(StatusOf(change), <<"D">>) THEN "deleted"
    ELSE "modified"

\* added, modified or deleted: the filenames of the changes of one list, in order
Filenames(changes, list) ==
    LET InList(change) == ListOf(change) = list
        sel == SelectSeq(changes, InList) IN
    [i \in 1..Len(sel) |-> FilenameOf(sel[i])]

KwTest == <<"t","e","s","t">>
KwFix == <<"f","i","x">>
KwBug == <<"b","u","g">>
KwFeature == <<"f","e","a","t","u","r","e">>
KwNew == <<"n","e","w">>
KwAdd == <<"a","d","d">>
DotPy == <<".","p","y">>

\* git diff -- f: text only for a path of the status with a change in the
\* working tree (second status letter M); "def" stands for a text with "def "
\* and "+", "fix" for one with "fix" or "bug" and no "def ", "plain" for neither
DiffOf(input, f) ==
    IF \E i \in DOMAIN input.lines :
          /\ SliceFrom(input.lines[i], 3) = f
          /\ input.lines[i][2] = "M"
    THEN input.diff
    ELSE "empty"

\* the loop `for f in all_files` with its breaks, from commit_type so far
RECURSIVE TypeLoop(_, _, _)
TypeLoop(files, commit_type, input) ==
    IF files = <<>> THEN commit_type
    ELSE LET f == Head(files) IN
         IF Contains(Lower(f), KwTest) THEN "test"
         ELSE IF Contains(Lower(f), KwFix) \/ Contains(Lower(f), KwBug) THEN "fix"
         ELSE IF \E x \in {KwFeature, KwNew, KwAdd} : Contains(Lower(f), x) THEN "feat"
         ELSE IF EndsWith(f, DotPy)
         THEN TypeLoop(Tail(files),
                       IF DiffOf(input, f) = "def" THEN "feat"
                       ELSE IF DiffOf(input, f) = "fix" THEN "fix"
                       ELSE commit_type,
                       input)
         ELSE TypeLoop(Tail(files), commit_type, input)

\* parts[-2] if parts[-1].endswith(".py") else parts[-1].split(".")[0], for
\* the files with len(parts) > 1
Dirs(all_files) ==
    {LET parts == Split(all_files[i], "/") IN
        IF EndsWith(parts[Len(parts)], DotPy)
        THEN parts[Len(parts) - 1]
        ELSE Split(parts[Len(parts)], ".")[1]
     : i \in {j \in DOMAIN all_files : Len(Split(all_files[j], "/")) > 1}}

\* scope = f"({list(dirs)[0]})" if len(dirs) == 1
ScopeOf(all_files) ==
    IF Cardinality(Dirs(all_files)) = 1
    THEN <<"(">> \o (CHOOSE d \in Dirs(all_files) : TRUE) \o <<")">>
    ELSE <<>>

\* ', '.join([f.split('/')[-1] for f in files[:3]])
FirstThree(files) ==
    LET n == IF Len(files) < 3 THEN Len(files) ELSE 3 IN
    Join([i \in 1..n |-> LET parts == Split(files[i], "/") IN parts[Len(parts)]], <<",", " ">>)

\* a description that never counts the files beyond the third
AndMoreNever(files) == <<>>

\* f" and {len(files) - 3} more" when len(files) > 3
AndMore(files) ==
    IF Len(files) > 3 THEN <<" ","a","n","d"," ">> \o FormatInt(Len(files) - 3) \o <<" ","m","o","r","e">> ELSE <<>>

\* desc
DescOf(added, modified, deleted) ==
    IF Len(added) > 0 /\ Len(modified) = 0 /\ Len(deleted) = 0
    THEN <<"a","d","d"," ">> \o FirstThree(added) \o AndMore(added)
    ELSE IF Len(deleted) > 0 /\ Len(added) = 0 /\ Len(modified) = 0
    THEN <<"r","e","m","o","v","e"," ">> \o FirstThree(deleted)
    ELSE IF Len(modified) > 0
    THEN <<"u","p","d","a","t","e"," ">> \o FirstThree(modified) \o AndMore(modified)
    ELSE <<"u","p","d","a","t","e"," ">> \o FormatInt(Len(added) + Len(modified) + Len(deleted)) \o <<" ","f","i","l","e","s">>

\* commit_type as text
TypeText(commit_type) ==
    CASE commit_type = "test" -> <<"t","e","s","t">>
      [] commit_type = "fix" -> <<"f","i","x">>
      [] commit_type = "feat" -> <<"f","e","a","t">>
      [] commit_type = "chore" -> <<"c","h","o","r","e">>

\* commit_type and scope for the status lines of input: what Categorize,
\* DetectType and DetermineScope below compute step by step
TypeFor(input) ==
    LET changes == Changes(input.lines) IN
    TypeLoop(Filenames(changes, "added") \o Filenames(changes, "modified")
                 \o Filenames(changes, "deleted"), "chore", input)

ScopeFor(input) ==
    LET changes == Changes(input.lines) IN
    ScopeOf(Filenames(changes, "added") \o Filenames(changes, "modified")
                \o Filenames(changes, "deleted"))

\* lines of git status --porcelain: two status letters, a blank, the path
StAddedFoo == <<"A", " ", " ", "s", "r", "c", "/", "f", "o", "o", ".", "p", "y">>
StAddedBar == <<"A", " ", " ", "s", "r", "c", "/", "b", "a", "r", ".", "p", "y">>
StAddedBaz == <<"A", " ", " ", "s", "r", "c", "/", "b", "a", "z", ".", "p", "y">>
StAddedQux == <<"A", " ", " ", "s", "r", "c", "/", "q", "u", "x", ".", "p", "y">>
StEditedMain == <<" ", "M", " ", "m", "a", "i", "n", ".", "p", "y">>
StEditedApp == <<" ", "M", " ", "s", "r", "c", "/", "a", "p", "p", ".", "p", "y">>
StStagedFix == <<"M", " ", " ", "s", "r", "c", "/", "f", "i", "x", "_", "a", ".", "p", "y">>
StStagedTest == <<"M", " ", " ", "t", "e", "s", "t", "s", "/", "t", "e", "s", "t", "_", "b", ".", "p", "y">>
StAddedReadme == <<"A", " ", " ", "d", "o", "c", "s", "/", "r", "e", "a", "d", "m", "e", ".", "m", "d">>
StStagedSetup == <<"M", " ", " ", "s", "e", "t", "u", "p", ".", "p", "y">>
StDeletedOld == <<"D", " ", " ", "s", "r", "c", "/", "o", "l", "d", ".", "p", "y">>
StDeletedNotes == <<" ", "D", " ", "n", "o", "t", "e", "s", ".", "t", "x", "t">>
StUntrackedNew == <<"?", "?", " ", "s", "r", "c", "/", "n", "e", "w", "_", "m", "o", "d", ".", "p", "y">>

StatusLines ==
    {StAddedFoo, StAddedBar, StAddedBaz, StAddedQux, StEditedMain, StEditedApp,
     StStagedFix, StStagedTest, StAddedReadme, StStagedSetup, StDeletedOld,
     StDeletedNotes, StUntrackedNew}

\* four new Python files under src/, staged
FourAdded == <<StAddedFoo, StAddedBar, StAddedBaz, StAddedQux>>

\* the status outputs tried: up to MaxLines lines on different paths in any
\* order, and the four staged additions
StatusOutputs ==
    {l \in UNION {[1..n -> StatusLines] : n \in 1..MaxLines} :
        \A i, j \in DOMAIN l : i # j => l[i] # l[j]} \cup {FourAdded}

InitMsg ==
    /\ statusIn \in [lines : StatusOutputs, diff : {"plain", "def", "fix"}]
    /\ plan = [pc |-> "status", added |-> <<>>, modified |-> <<>>, deleted |-> <<>>,
               commit_type |-> "chore", scope |-> <<>>, desc |-> <<>>,
               commit_msg |-> <<>>]
    /\ worker = <<>> /\ upd = <<>> /\ hooks = <<>> /\ batch = <<>>
    /\ inTriple = <<>> /\ inVersion = <<>> /\ inCommits = <<>>
    /\ outBump = "idle" /\ outVersion = <<>>
    /\ layout = "mono" /\ pyDiff = "plain"
    /\ head = NoTree /\ index = NoTree /\ wt = NoTree
    /\ tmpFiles = <<>>
    /\ log = [r \in Repos |-> <<>>] /\ tags = [r \in Repos |-> {}]
    /\ pushed = [r \in Repos |-> 0]
    /\ nCommit = 0 /\ nPush = 0
    /\ stack = <<>>
    /\ last = NoResult

msgRest == <<inTriple, inVersion, inCommits, outBump, outVersion, libVars, gitVars, callVars>>

\* for change in changes: added, modified, deleted
Categorize ==
    /\ plan.pc = "status"
    /\ plan' = [plan EXCEPT !.pc = "type",
                            !.added = Filenames(Changes(statusIn.lines), "added"),
                            !.modified = Filenames(Changes(statusIn.lines), "modified"),
                            !.deleted = Filenames(Changes(statusIn.lines), "deleted")]
    /\ UNCHANGED <<statusIn, msgRest>>

\* commit_type = "chore"; for f in all_files: ...
DetectType ==
    /\ plan.pc = "type"
    /\ plan' = [plan EXCEPT !.pc = "scope",
                            !.commit_type = TypeLoop(plan.added \o plan.modified \o plan.deleted,
                                                     "chore", statusIn)]
    /\ UNCHANGED <<statusIn, msgRest>>

\* dirs and scope
DetermineScope ==
    /\ plan.pc = "scope"
    /\ plan' = [plan EXCEPT !.pc = "desc",
                            !.scope = ScopeOf(plan.added \o plan.modified \o plan.deleted)]
    /\ UNCHANGED <<statusIn, msgRest>>

\* desc and commit_msg = f"{commit_type}{scope}: {desc}"
Describe ==
    /\ plan.pc = "desc"
    /\ plan' = [plan EXCEPT !.pc = "done",
                            !.desc = DescOf(plan.added, plan.modified, plan.deleted),
                            !.commit_msg = TypeText(plan.commit_type) \o plan.scope
                                              \o <<":", " ">>
                                              \o DescOf(plan.added, plan.modified, plan.deleted)]
    /\ UNCHANGED <<statusIn, msgRest>>

NextMsg == Categorize \/ DetectType \/ DetermineScope \/ Describe

SpecMsg == InitMsg /\ [][NextMsg]_vars

(***************************************************************************)
(* BaseWorker: pause(), resume() and request_cancel() come from the GUI    *)
(* thread, wait_if_paused() runs on the worker thread; every access to     *)
(* _paused and _cancelled is made under the mutex.                         *)
(***************************************************************************)
\* calls of pause, resume and request_cancel, and calls of wait_if_paused
MaxRequests == 3
MaxWaits == 2

\* no command, no harness: the state of the other variables while a library
\* class is exercised
InitLibraryOnly ==
    /\ inTriple = <<>> /\ inVersion = <<>> /\ inCommits = <<>>
    /\ outBump = "idle" /\ outVersion = <<>>
    /\ statusIn = <<>> /\ plan = <<>>
    /\ layout = "mono" /\ pyDiff = "plain"
    /\ head = NoTree /\ index = NoTree /\ wt = NoTree
    /\ tmpFiles = <<>>
    /\ log = [r \in Repos |-> <<>>] /\ tags = [r \in Repos |-> {}]
    /\ pushed = [r \in Repos |-> 0]
    /\ nCommit = 0 /\ nPush = 0
    /\ stack = <<>>
    /\ last = NoResult

workerRest ==
    <<inTriple, inVersion, inCommits, outBump, outVersion, msgVars, upd, hooks, batch, gitVars, callVars>>

\* __init__; pc is where the worker thread stands: "work" outside
\* wait_if_paused, "while" at the loop test, "if" at the cancellation test,
\* "msleep" asleep, "return" at the final return. blocked: a cancellation was
\* requested while paused with the thread inside the loop and that call has
\* not returned yet; again: pause or resume came after that request.
InitWorker ==
    /\ worker = [_cancelled |-> FALSE, _paused |-> FALSE, pc |-> "work",
                 returned |-> "none", requests |-> 0, waits |-> 0,
                 blocked |-> FALSE, again |-> FALSE, released |-> FALSE]
    /\ upd = <<>> /\ hooks = <<>> /\ batch = <<>>
    /\ InitLibraryOnly

InLoop == worker.pc \in {"while", "if", "msleep"}

Pause ==
    /\ worker.requests < MaxRequests
    /\ worker' = [worker EXCEPT !._paused = TRUE,
                                !.requests = @ + 1,
                                !.again = @ \/ worker.blocked]
    /\ UNCHANGED workerRest

Resume ==
    /\ worker.requests < MaxRequests
    /\ worker' = [worker EXCEPT !._paused = FALSE,
                                !.requests = @ + 1,
                                !.again = @ \/ worker.blocked]
    /\ UNCHANGED workerRest

RequestCancel ==
    /\ worker.requests < MaxRequests
    /\ worker' = [worker EXCEPT !._cancelled = TRUE,
                                !._paused = FALSE,
                                !.requests = @ + 1,
                                !.blocked = @ \/ (worker._paused /\ InLoop)]
    /\ UNCHANGED workerRest

\* do_work calls wait_if_paused
WaitIfPaused ==
    /\ worker.pc = "work"
    /\ worker.waits < MaxWaits
    /\ worker' = [worker EXCEPT !.pc = "while", !.waits = @ + 1,
                                !.returned = "none", !.released = FALSE]
    /\ UNCHANGED workerRest

\* the value v leaves wait_if_paused
Leave(v) ==
    [worker EXCEPT !.pc = "work", !.returned = v,
                   !.released = worker.blocked, !.blocked = FALSE]

\* while self.is_paused
WhilePaused ==
    /\ worker.pc = "while"
    /\ worker' = [worker EXCEPT !.pc = IF worker._paused THEN "if" ELSE "return"]
    /\ UNCHANGED workerRest

\* a loop that never looks at the cancellation
IfCancelledNever ==
    /\ worker.pc = "if"
    /\ worker' = [worker EXCEPT !.pc = "msleep"]
    /\ UNCHANGED workerRest

\* if self.is_cancelled: return False
IfCancelled ==
    /\ worker.pc = "if"
    /\ worker' = IF worker._cancelled THEN Leave(FALSE)
                 ELSE [worker EXCEPT !.pc = "msleep"]
    /\ UNCHANGED workerRest

\* self.msleep(100)
Msleep ==
    /\ worker.pc = "msleep"
    /\ worker' = [worker EXCEPT !.pc = "while"]
    /\ UNCHANGED workerRest

\* return not self.is_cancelled
ReturnNotCancelled ==
    /\ worker.pc = "return"
    /\ worker' = Leave(~worker._cancelled)
    /\ UNCHANGED workerRest

\* the steps of the worker thread inside wait_if_paused
WorkerThread == WhilePaused \/ IfCancelled \/ Msleep \/ ReturnNotCancelled

NextWorker == Pause \/ Resume \/ RequestCancel \/ WaitIfPaused \/ WorkerThread

\* the worker thread keeps being scheduled: a step of wait_if_paused that
\* stays possible is taken (msleep ends, the mutex is released after every
\* access); nothing is assumed about the GUI thread
SpecWorker == InitWorker /\ [][NextWorker]_vars /\ WF_vars(WorkerThread)

(***************************************************************************)
(* BaseWorker.run and BatchWorker.do_work on the worker thread, with       *)
(* pause(), resume() and request_cancel() coming from the GUI thread at    *)
(* any moment.  An item is its position in self.items.                     *)
(***************************************************************************)
\* the longest list of items
MaxItems == 3

batchRest ==
    <<inTriple, inVersion, inCommits, outBump, outVersion, msgVars, upd, hooks, gitVars, callVars>>

\* what a call of do_work or of process_item can do: return, raise an
\* exception that `except Exception` catches, or raise one it does not catch
\* (SystemExit, KeyboardInterrupt, any other BaseException)
Raises == {"Exception", "BaseException"}

\* __init__ of a BatchWorker over n items, or of another subclass of
\* BaseWorker whose do_work is not known; pc is the statement the thread is
\* at, from the call of run() by start().  order: the items process_item was
\* called with; stopped: wait_if_paused returned False; outcome: how do_work
\* ended; emitted: the error and finished signals, in order, with the
\* argument of each.
InitBatch ==
    /\ worker = [_cancelled |-> FALSE, _paused |-> FALSE, pc |-> "work",
                 returned |-> "none", requests |-> 0, waits |-> 0,
                 blocked |-> FALSE, again |-> FALSE, released |-> FALSE]
    /\ \E cls \in {"BatchWorker", "Subclass"}, n \in 0..MaxItems :
          /\ cls = "Subclass" => n = 0
          /\ batch = [cls |-> cls, items |-> n, pc |-> "run", i |-> 1,
                      stats |-> [processed |-> 0, succeeded |-> 0,
                                 failed |-> 0, skipped |-> 0],
                      order |-> <<>>, stopped |-> FALSE,
                      outcome |-> "running", _result |-> "{}",
                      emitted |-> <<>>]
    /\ upd = <<>> /\ hooks = <<>>
    /\ InitLibraryOnly

BatchAt(pc) == batch # <<>> /\ batch.pc = pc

\* run: try: self._result = self.do_work() ...
Run ==
    /\ BatchAt("run")
    /\ batch' = [batch EXCEPT !.pc = "do_work"]
    /\ UNCHANGED <<worker, batchRest>>

\* do_work of a subclass that is not BatchWorker: it returns a dict, returns
\* None (`or {}` makes it the empty dict), or raises
DoWork ==
    /\ BatchAt("do_work") /\ batch.cls = "Subclass"
    /\ \E out \in {"dict", "None"} \cup Raises :
          batch' = [batch EXCEPT
                      !.outcome = IF out \in Raises THEN out ELSE "returned",
                      !._result = IF out = "dict" THEN "dict" ELSE @,
                      !.pc = CASE out = "Exception" -> "except"
                               [] out = "BaseException" -> "propagated"
                               [] OTHER -> "emit_finished"]
    /\ UNCHANGED <<worker, batchRest>>

\* BatchWorker.do_work: total = len(self.items)
BatchDoWork ==
    /\ BatchAt("do_work") /\ batch.cls = "BatchWorker"
    /\ batch' = [batch EXCEPT !.pc = "for", !.i = 1]
    /\ UNCHANGED <<worker, batchRest>>

\* for i, item in enumerate(self.items): the next item and the call of
\* wait_if_paused, or the end of the list
BatchFor ==
    /\ BatchAt("for")
    /\ IF batch.i > batch.items
       THEN /\ batch' = [batch EXCEPT !.pc = "return"]
            /\ UNCHANGED worker
       ELSE /\ batch' = [batch EXCEPT !.pc = "wait"]
            /\ worker' = [worker EXCEPT !.pc = "while", !.waits = @ + 1,
                                        !.returned = "none", !.released = FALSE]
    /\ UNCHANGED batchRest

\* if not self.wait_if_paused(): break
BatchAfterWait ==
    /\ BatchAt("wait")
    /\ worker.pc = "work"
    /\ batch' = IF worker.returned
                THEN [batch EXCEPT !.pc = "process"]
                ELSE [batch EXCEPT !.pc = "return", !.stopped = TRUE]
    /\ UNCHANGED <<worker, batchRest>>

\* result = self.process_item(item), which returns or raises
ProcessItem ==
    /\ BatchAt("process")
    /\ \E out \in {"ok"} \cup Raises :
          batch' = [batch EXCEPT
                      !.order = Append(@, batch.i),
                      !.outcome = IF out = "BaseException" THEN out ELSE @,
                      !.pc = CASE out = "ok" -> "succeeded"
                               [] out = "Exception" -> "failed"
                               [] OTHER -> "propagated"]
    /\ UNCHANGED <<worker, batchRest>>

\* self.stats["succeeded"] += 1
BatchSucceeded ==
    /\ BatchAt("succeeded")
    /\ batch' = [batch EXCEPT !.stats.succeeded = @ + 1, !.pc = "item_processed"]
    /\ UNCHANGED <<worker, batchRest>>

\* self.item_processed.emit(item, result)
BatchItemProcessed ==
    /\ BatchAt("item_processed")
    /\ batch' = [batch EXCEPT !.pc = "processed"]
    /\ UNCHANGED <<worker, batchRest>>

\* a handler that gives up the loop at the first failed item
BatchFailedBreak ==
    /\ BatchAt("failed")
    /\ batch' = [batch EXCEPT !.stats.failed = @ + 1,
                              !.stats.processed = @ + 1, !.pc = "return"]
    /\ UNCHANGED <<worker, batchRest>>

\* except Exception as e: self.stats["failed"] += 1; self.log(...)
BatchFailed ==
    /\ BatchAt("failed")
    /\ batch' = [batch EXCEPT !.stats.failed = @ + 1, !.pc = "processed"]
    /\ UNCHANGED <<worker, batchRest>>

\* self.stats["processed"] += 1
BatchProcessed ==
    /\ BatchAt("processed")
    /\ batch' = [batch EXCEPT !.stats.processed = @ + 1, !.pc = "progress"]
    /\ UNCHANGED <<worker, batchRest>>

\* self.report_progress(i + 1, total, str(item)), and the loop goes on
BatchProgress ==
    /\ BatchAt("progress")
    /\ batch' = [batch EXCEPT !.i = @ + 1, !.pc = "for"]
    /\ UNCHANGED <<worker, batchRest>>

\* return self.stats: a dict of four keys, so `or {}` keeps it
BatchReturn ==
    /\ BatchAt("return")
    /\ batch' = [batch EXCEPT !.outcome = "returned", !._result = "stats",
                              !.pc = "emit_finished"]
    /\ UNCHANGED <<worker, batchRest>>

\* self.finished.emit(self._result)
EmitFinished ==
    /\ BatchAt("emit_finished")
    /\ batch' = [batch EXCEPT
                   !.emitted = Append(@, [signal |-> "finished", arg |-> batch._result]),
                   !.pc = "done"]
    /\ UNCHANGED <<worker, batchRest>>

\* a handler that reports the error and nothing else
RunExceptErrorOnly ==
    /\ BatchAt("except")
    /\ batch' = [batch EXCEPT
                   !.emitted = Append(@, [signal |-> "error", arg |-> "str(e)"]),
                   !.pc = "done"]
    /\ UNCHANGED <<worker, batchRest>>

\* except Exception as e: logger.exception(...); self.error.emit(str(e));
\* self.finished.emit({"error": str(e)})
RunExcept ==
    /\ BatchAt("except")
    /\ batch' = [batch EXCEPT
                   !.emitted = @ \o <<[signal |-> "error", arg |-> "str(e)"],
                                      [signal |-> "finished", arg |-> "{error}"]>>,
                   !.pc = "done"]
    /\ UNCHANGED <<worker, batchRest>>

\* the steps of the worker thread, those inside wait_if_paused included
BatchThread ==
    \/ Run \/ DoWork \/ BatchDoWork \/ BatchFor \/ BatchAfterWait
    \/ ProcessItem \/ BatchSucceeded \/ BatchItemProcessed \/ BatchFailed
    \/ BatchProcessed \/ BatchProgress \/ BatchReturn
    \/ EmitFinished \/ RunExcept
    \/ WorkerThread

NextBatch == Pause \/ Resume \/ RequestCancel \/ BatchThread

\* the worker thread keeps being scheduled; nothing is assumed about the
\* GUI thread
SpecBatch == InitBatch /\ [][NextBatch]_vars /\ WF_vars(BatchThread)

(***************************************************************************)
(* UpdateChecker: check(force) with its cache file update_check.json.      *)
(***************************************************************************)
CACHE_DURATION == 3600

\* advances of the clock, and calls of check
MaxTicks == 2
MaxChecks == 2

\* tag names of the latest release, without the leading "v"
Releases == {"5.2.0", "5.3.0"}

\* the cache file: absent, not a JSON object, or an object with
\* latest_version and timestamp (a missing timestamp reads as 0)
CacheMissing == [state |-> "missing", latest_version |-> "", timestamp |-> 0]
CacheUnreadable == [state |-> "unreadable", latest_version |-> "", timestamp |-> 0]
CacheEntry(v, t) == [state |-> "entry", latest_version |-> v, timestamp |-> t]

\* what _read_cache returns when it returns None
None == [state |-> "none", latest_version |-> "", timestamp |-> 0]

\* a cache read that never expires an entry
ReadCacheNoExpiry(cache, now) ==
    IF cache.state # "entry" THEN None ELSE cache

\* _read_cache at the time now
ReadCache(cache, now) ==
    IF cache.state # "entry" THEN None
    ELSE IF now - cache.timestamp > CACHE_DURATION THEN None
    ELSE cache

\* no check has returned yet
NoCheck ==
    [source |-> "none", force |-> FALSE, before |-> CacheMissing, readNow |-> 0,
     version |-> "", wrote |-> FALSE, after |-> CacheMissing, writeNow |-> 0]

updRest ==
    <<inTriple, inVersion, inCommits, outBump, outVersion, msgVars, worker, hooks, batch, gitVars, callVars>>

\* the clock starts three cache durations after the epoch; the cache file is
\* absent, unreadable, or holds an entry of age 0, 3600, 3601 or without
\* timestamp
InitUpdate ==
    /\ \E cache \in {CacheMissing, CacheUnreadable}
                     \cup {CacheEntry("5.2.0", t) :
                              t \in {0, 2 * CACHE_DURATION - 1, 2 * CACHE_DURATION,
                                     3 * CACHE_DURATION}} :
          upd = [cache |-> cache, now |-> 3 * CACHE_DURATION, pc |-> "idle",
                 force |-> FALSE, release |-> "", ticks |-> 0, checks |-> 0,
                 res |-> NoCheck]
    /\ worker = <<>> /\ hooks = <<>> /\ batch = <<>>
    /\ InitLibraryOnly

\* time.time() moves on
Tick ==
    /\ upd.ticks < MaxTicks
    /\ \E d \in {1, CACHE_DURATION} :
          upd' = [upd EXCEPT !.now = @ + d, !.ticks = @ + 1]
    /\ UNCHANGED updRest

\* check(force) is called
Check ==
    /\ upd.pc = "idle"
    /\ upd.checks < MaxChecks
    /\ \E force \in BOOLEAN :
          upd' = [upd EXCEPT !.pc = IF force THEN "fetch" ELSE "cache",
                             !.force = force,
                             !.checks = @ + 1,
                             !.release = "",
                             !.res = [NoCheck EXCEPT !.force = force,
                                                     !.before = upd.cache,
                                                     !.readNow = upd.now]]
    /\ UNCHANGED updRest

\* cached = self._read_cache(); if cached: return the cached result
CheckCache ==
    /\ upd.pc = "cache"
    /\ LET cached == ReadCache(upd.cache, upd.now) IN
       upd' = IF cached # None
              THEN [upd EXCEPT !.pc = "idle",
                               !.res = [@ EXCEPT !.source = "cache",
                                                 !.before = upd.cache,
                                                 !.readNow = upd.now,
                                                 !.version = cached.latest_version,
                                                 !.after = upd.cache]]
              ELSE [upd EXCEPT !.pc = "fetch",
                               !.res = [@ EXCEPT !.before = upd.cache,
                                                 !.readNow = upd.now]]
    /\ UNCHANGED updRest

\* release = self._fetch_latest_release() and result_data
FetchLatestRelease ==
    /\ upd.pc = "fetch"
    /\ \E v \in Releases : upd' = [upd EXCEPT !.pc = "write", !.release = v]
    /\ UNCHANGED updRest

\* HTTPError, URLError or another exception: a result with error, no write
FetchFails ==
    /\ upd.pc = "fetch"
    /\ upd' = [upd EXCEPT !.pc = "idle",
                          !.res = [@ EXCEPT !.source = "error", !.after = upd.cache]]
    /\ UNCHANGED updRest

\* self._write_cache(result_data) and the return: the file is written, or
\* the write fails and is ignored, leaving the file as it was (open failed) or
\* cut short (the dump failed)
WriteCache ==
    /\ upd.pc = "write"
    /\ \E wrote \in BOOLEAN :
       \E file \in IF wrote THEN {CacheEntry(upd.release, upd.now)}
                   ELSE {upd.cache, CacheUnreadable} :
          upd' = [upd EXCEPT !.pc = "idle",
                             !.cache = file,
                             !.res = [@ EXCEPT !.source = "fetch",
                                               !.version = upd.release,
                                               !.wrote = wrote,
                                               !.after = file,
                                               !.writeNow = upd.now]]
    /\ UNCHANGED updRest

NextUpdate == Tick \/ Check \/ CheckCache \/ FetchLatestRelease \/ FetchFails \/ WriteCache

SpecUpdate == InitUpdate /\ [][NextUpdate]_vars

(***************************************************************************)
(* The post-commit hook install_hooks writes: instances of the script in   *)
(* the repositories of one workspace, which share one lock directory.      *)
(***************************************************************************)
\* hook instances that can be started
MaxHooks == 3

Instances == 1..MaxHooks

hookRest ==
    <<inTriple, inVersion, inCommits, outBump, outVersion, msgVars, worker, upd, batch, gitVars, callVars>>

\* lock: the instance whose mkdir made the lock directory, 0 when there is
\* none. pc of an instance: "idle" not started, "mkdir" before the mkdir,
\* "status" and "save" past it, "commit" while a commit of its save runs,
\* "exit" leaving, "done" gone. parent: the instance whose save made the
\* commit that fired this one; ran: it started `save .razorcore`; killed: it
\* ended on a signal that runs no EXIT trap
InitHook ==
    /\ hooks = [lock |-> 0,
                proc |-> [i \in Instances |->
                            [pc |-> "idle", parent |-> 0, ran |-> FALSE, killed |-> FALSE]]]
    /\ worker = <<>> /\ upd = <<>> /\ batch = <<>>
    /\ InitLibraryOnly

PastLock(i) == hooks.proc[i].pc \in {"status", "save", "commit", "exit"}

\* a commit made by hand in some repository of the workspace fires the hook
HookFired ==
    /\ \E i \in Instances :
          /\ hooks.proc[i].pc = "idle"
          /\ hooks' = [hooks EXCEPT !.proc[i].pc = "mkdir"]
    /\ UNCHANGED hookRest

\* a mkdir that succeeds on an existing directory
HookMkdirAlways ==
    /\ \E i \in Instances :
          /\ hooks.proc[i].pc = "mkdir"
          /\ hooks' = [hooks EXCEPT !.lock = i, !.proc[i].pc = "status"]
    /\ UNCHANGED hookRest

\* if ! mkdir "$lockdir"; then exit 0; fi; trap 'rmdir "$lockdir"' EXIT
HookMkdir ==
    /\ \E i \in Instances :
          /\ hooks.proc[i].pc = "mkdir"
          /\ hooks' = IF hooks.lock = 0
                      THEN [hooks EXCEPT !.lock = i, !.proc[i].pc = "status"]
                      ELSE [hooks EXCEPT !.proc[i].pc = "done"]
    /\ UNCHANGED hookRest

\* git -C .razorcore status --porcelain: nothing to save, or on to the save
HookStatus ==
    /\ \E i \in Instances :
          /\ hooks.proc[i].pc = "status"
          /\ \/ hooks' = [hooks EXCEPT !.proc[i].pc = "exit"]
             \/ hooks' = [hooks EXCEPT !.proc[i].pc = "save", !.proc[i].ran = TRUE]
    /\ UNCHANGED hookRest

\* python3 -m razorcore.cli.main save .razorcore: a git commit of the save
\* (its own, or the version bump) fires the hook again and waits for it
HookSaveCommits ==
    /\ \E i, j \in Instances :
          /\ hooks.proc[i].pc = "save"
          /\ hooks.proc[j].pc = "idle"
          /\ hooks' = [hooks EXCEPT !.proc[i].pc = "commit",
                                    !.proc[j].pc = "mkdir",
                                    !.proc[j].parent = i]
    /\ UNCHANGED hookRest

\* the hook of that commit has ended: the save goes on
HookCommitDone ==
    /\ \E i \in Instances :
          /\ hooks.proc[i].pc = "commit"
          /\ \A j \in Instances : hooks.proc[j].parent = i => hooks.proc[j].pc = "done"
          /\ hooks' = [hooks EXCEPT !.proc[i].pc = "save"]
    /\ UNCHANGED hookRest

\* the save ends, whatever it returned (|| true)
HookSaveEnds ==
    /\ \E i \in Instances :
          /\ hooks.proc[i].pc = "save"
          /\ hooks' = [hooks EXCEPT !.proc[i].pc = "exit"]
    /\ UNCHANGED hookRest

\* the shell exits and runs the EXIT trap: rmdir "$lockdir"
HookExit ==
    /\ \E i \in Instances :
          /\ hooks.proc[i].pc = "exit"
          /\ hooks' = [hooks EXCEPT !.lock = 0, !.proc[i].pc = "done"]
    /\ UNCHANGED hookRest

\* the shell is ended by a signal on which no EXIT trap runs (SIGKILL; for
\* /bin/sh implementations such as dash, any untrapped signal)
HookKilled ==
    /\ \E i \in Instances :
          /\ hooks.proc[i].pc \in {"mkdir", "status", "save", "exit"}
          /\ hooks' = [hooks EXCEPT !.proc[i].pc = "done", !.proc[i].killed = TRUE]
    /\ UNCHANGED hookRest

NextHook ==
    \/ HookFired \/ HookMkdir \/ HookStatus \/ HookSaveCommits \/ HookCommitDone
    \/ HookSaveEnds \/ HookExit \/ HookKilled

SpecHook == InitHook /\ [][NextHook]_vars

(***************************************************************************)
(* The command line: main dispatches one command and maps what comes back  *)
(* to an exit code; commit_all, build_project and the commands that only   *)
(* report (sync_configs, verify, list_projects).                           *)
(***************************************************************************)
\* the message argument of `razorcore commit-all "Fix bug"`
MsgUser == <<"F","i","x"," ","b","u","g">>

\* exit statuses of universal-build.sh
ScriptExitCodes == {0, 1, 2}

\* for proj_dir in project_dirs, up to git add
CommitAllLoop ==
    /\ At("commit_all", "enter")
    /\ Top.i <= Len(MANAGED_PROJECTS)
    /\ LET name == MANAGED_PROJECTS[Top.i] IN
       IF name \notin ExistingProjects
       THEN SetTop([Top EXCEPT !.i = @ + 1])
       ELSE IF IsNested \/ ~HasChanges(RepoPaths(name))
       THEN SetTop([Top EXCEPT !.i = @ + 1, !.skipped = @ + 1])
       ELSE SetTop([Top EXCEPT !.proj = name, !.pc = "add"])
    /\ UNCHANGED <<gitVars, envVars, last, harnessVars>>

\* subprocess.run(["git", "add", "-A"], check=True): a non-zero exit raises
CommitAllAdd ==
    /\ At("commit_all", "add")
    /\ \/ /\ index' = GitAdd(index, RepoPaths(RepoOf(Top.proj)))
          /\ Goto("commit")
          /\ UNCHANGED <<head, wt, tmpFiles, log, tags, pushed, nCommit, nPush, last>>
       \/ /\ RaiseOut("CalledProcessError")
          /\ UNCHANGED gitVars
    /\ UNCHANGED <<envVars, harnessVars>>

CommitAllCommit ==
    /\ At("commit_all", "commit")
    /\ GitCommit(index, TRUE, MsgUser, <<"committed", "failed">>)

\* committed += 1, or skipped += 1 ("nothing to commit"), or errors += 1
CommitAllTally ==
    /\ \/ /\ At("commit_all", "committed")
          /\ SetTop([Top EXCEPT !.saved = @ + 1,
                                !.i = IF Top.push THEN @ ELSE @ + 1,
                                !.pc = IF Top.push THEN "push" ELSE "enter"])
       \/ /\ At("commit_all", "failed")
          /\ IF Committable(index, RepoOf(Top.proj))
             THEN SetTop([Top EXCEPT !.errors = @ + 1, !.i = @ + 1, !.pc = "enter"])
             ELSE SetTop([Top EXCEPT !.skipped = @ + 1, !.i = @ + 1, !.pc = "enter"])
    /\ UNCHANGED <<gitVars, envVars, last, harnessVars>>

\* git push; a failed push is an error of the project
CommitAllPush ==
    /\ At("commit_all", "push")
    /\ GitPush(SetTop([Top EXCEPT !.pushes = @ + 1, !.i = @ + 1, !.pc = "enter"]),
               SetTop([Top EXCEPT !.pushes = @ + 1, !.pushFail = TRUE, !.errors = @ + 1,
                                  !.i = @ + 1, !.pc = "enter"]))
    /\ UNCHANGED last

\* return 1 if errors > 0 else 0
CommitAllDone ==
    /\ At("commit_all", "enter")
    /\ Top.i > Len(MANAGED_PROJECTS)
    /\ Return(IF Top.errors > 0 THEN 1 ELSE 0)
    /\ UNCHANGED <<gitVars, envVars, harnessVars>>

\* build_project: 1 without the script or the project, else the script's status
BuildProject ==
    /\ At("build_project", "enter")
    /\ \/ Return(1)
       \/ /\ Top.proj \in ExistingProjects
          /\ \E rc \in ScriptExitCodes : Return(rc)
    /\ UNCHANGED <<gitVars, envVars, harnessVars>>

\* sync_configs, verify: return 1 if errors > 0 else 0; list_projects: return 0
ReportCommand ==
    /\ stack # <<>> /\ last.exc = "none"
    /\ Top.fn \in {"sync_configs", "verify", "list_projects"}
    /\ \E rc \in (IF Top.fn = "list_projects" THEN {0} ELSE {0, 1}) : Return(rc)
    /\ UNCHANGED <<gitVars, envVars, harnessVars>>

\* KeyboardInterrupt while a command runs: inside a try block it passes
\* through the finally block, elsewhere it leaves the function at once
Interrupt ==
    /\ Len(stack) >= 2 /\ last.exc = "none"
    /\ IF Top.fn = "bump_version" /\ Top.pc \in {"read_tree", "add", "commit", "reset"}
       THEN /\ SetTop([Top EXCEPT !.raising = TRUE, !.pending = "KeyboardInterrupt",
                                  !.pc = "finally"])
            /\ UNCHANGED last
       ELSE RaiseOut("KeyboardInterrupt")
    /\ UNCHANGED <<gitVars, envVars, harnessVars>>

\* the function main calls for parsed.command
Handler(command) ==
    CASE command = "sync-configs" -> "sync_configs"
      [] command = "verify" -> "verify"
      [] command = "commit-all" -> "commit_all"
      [] command = "list" -> "list_projects"
      [] command = "bump" -> "bump_version"
      [] command = "build" -> "build_project"

\* main up to the call of the handler; --version and no command return 0
MainDispatch ==
    /\ At("main", "enter")
    /\ IF Top.cmd \in {"--version", ""}
       THEN Return(0)
       ELSE Call([Frame(Handler(Top.cmd), Top.proj, FALSE, FALSE, Top.dry_run)
                     EXCEPT !.push = Top.push], "ret")
    /\ UNCHANGED <<gitVars, envVars, harnessVars>>

\* return <handler>(...)
MainReturn ==
    /\ At("main", "ret")
    /\ Return(last.rc)
    /\ UNCHANGED <<gitVars, envVars, harnessVars>>

\* except KeyboardInterrupt: return 130; except Exception: return 1
MainExcept ==
    /\ stack # <<>> /\ Top.fn = "main" /\ last.exc # "none"
    /\ stack' = Pop
    /\ last' = Result([Top EXCEPT !.raising = TRUE, !.pending = last.exc],
                      IF last.exc = "KeyboardInterrupt" THEN 130 ELSE 1, "none", nPush)
    /\ UNCHANGED <<gitVars, envVars, harnessVars>>

\* the command lines: every command, on a project that exists or not
CommandLines ==
    [cmd : {"--version", "", "sync-configs", "verify", "list"},
     proj : {""}, dry_run : {FALSE}, push : {FALSE}]
    \cup [cmd : {"commit-all"}, proj : {""}, dry_run : {FALSE}, push : BOOLEAN]
    \cup [cmd : {"bump"}, proj : {"4Charm", "Nexus"}, dry_run : BOOLEAN, push : {FALSE}]
    \cup [cmd : {"build"}, proj : {"4Charm", "Nexus"}, dry_run : {FALSE}, push : {FALSE}]

InitCli ==
    /\ log = [r \in Repos |-> <<SubjFixY>>]
    /\ tags = [r \in Repos |-> {}]
    /\ pushed = [r \in Repos |-> 1]
    /\ tmpFiles = <<>>
    /\ nCommit = 0 /\ nPush = 0
    /\ \E line \in CommandLines, lay \in {"mono", "standalone"},
          src \in [SrcPaths -> {Clean, Modified}],
          py4 \in {SpacedPy(V123), SpacedPy(V12x), SpacedPy(V12)} :
        /\ layout = lay
        /\ pyDiff = "plain"
        /\ head = [p \in Paths |->
                     IF p \in SrcPaths THEN 1
                     ELSE IF p[1] = "4Charm" THEN py4 ELSE AbsentPy]
        /\ index = [p \in Paths |-> IF p \in SrcPaths THEN src[p].idx ELSE head[p]]
        /\ wt = [p \in Paths |-> IF p \in SrcPaths THEN src[p].wt ELSE head[p]]
        /\ stack = <<[Frame("main", line.proj, FALSE, FALSE, line.dry_run)
                        EXCEPT !.cmd = line.cmd, !.push = line.push,
                               !.c0 = 0, !.p0 = 0, !.idx0 = NoTree, !.head0 = NoTree]>>
    /\ last = NoResult
    /\ InitHarnessIdle

NextCli ==
    \/ MainDispatch \/ MainReturn \/ MainExcept \/ Interrupt
    \/ ReportCommand \/ BuildProject
    \/ CommitAllLoop \/ CommitAllAdd \/ CommitAllCommit \/ CommitAllTally
    \/ CommitAllPush \/ CommitAllDone
    \/ BumpEnter \/ BumpPlan \/ BumpWrite
    \/ BumpTemp \/ BumpReadTree \/ BumpAdd \/ BumpCommit \/ BumpReset \/ BumpFinally
    \/ BumpAddAll \/ BumpCommitPlain \/ BumpTag \/ BumpPush \/ BumpPushTags

SpecCli == InitCli /\ [][NextCli]_vars

(***************************************************************************)
(* Properties of the version computation, under SpecBump.                  *)
(***************************************************************************)
V130 == <<"1",".","3",".","0">>
V300 == <<"3",".","0",".","0">>
V1100 == <<"1",".","1","0",".","0">>

KwBreakingChange == <<"b","r","e","a","k","i","n","g"," ","c","h","a","n","g","e">>

\* a subject that asks for a major bump, as section 4.4 words it
AsksMajor(subject) ==
    \/ \E k \in 1..Len(subject) :
          /\ k + Len(KwBreakingChange) - 1 <= Len(subject)
          /\ \A j \in 1..Len(KwBreakingChange) :
                \/ subject[k + j - 1] = KwBreakingChange[j]
                \/ \E u \in 1..Len(Upper) :
                      Upper[u] = subject[k + j - 1] /\ LowerTbl[u] = KwBreakingChange[j]
    \/ (subject # <<>> /\ subject[1] = "!")

\* a subject that asks for a minor bump
AsksMinor(subject) ==
    /\ Len(subject) >= 5
    /\ SubSeq(subject, 1, 4) = <<"f","e","a","t">>
    /\ subject[5] \in {":", "("}

C7_ExactlyOneIncrement ==
    (inTriple # <<>> /\ outVersion # <<>>) =>
        /\ outVersion = FormatVersion(
              IF outBump = "major" THEN <<inTriple[1] + 1, 0, 0>>
              ELSE IF outBump = "minor" THEN <<inTriple[1], inTriple[2] + 1, 0>>
              ELSE <<inTriple[1], inTriple[2], inTriple[3] + 1>>)
        /\ (inVersion = V123 /\ outBump = "minor" => outVersion = V130)
        /\ (inVersion = V200 /\ outBump = "major" => outVersion = V300)
        /\ (inVersion = V199 /\ outBump = "minor" => outVersion = V1100)

\* a minor bump of 1.9.9 was computed: patch goes back to 0 and minor carries
\* into a second digit
C7_Witness ==
    /\ inTriple = <<1, 9, 9>> /\ outBump = "minor" /\ outVersion = V1100

(***************************************************************************)
(* Properties of the commands, under Spec.  `last` is the record of the    *)
(* call that ended most recently: its frame with what held at its start    *)
(* (idx0, head0, c0, p0) and the index and counters at its end.            *)
(***************************************************************************)
NotesPath == <<"notes", "todo.md">>

\* the call that ended committed a nested project through a temporary index
CommittedSubtree(f) ==
    /\ f.fn \in {"save_project", "bump_version", "auto_bump_version"}
    /\ layout = "mono"
    /\ f.tmp # 0

\* C1 as the specification states it: after a call that committed the nested
\* project P through the temporary index, every path outside P that was
\* staged when the call began has the same entry in the primary index.
C1_OutsideStagedKept ==
    \A p \in Paths :
        (/\ CommittedSubtree(last.frame)
         /\ p[1] # last.frame.proj
         /\ last.frame.idx0[p] # last.frame.head0[p])
        => last.index[p] = last.frame.idx0[p]

\* C1, amended: the same for every path outside P and, when the call goes on
\* to the auto-save of .razorcore (auto_save_razorcore set, P not .razorcore),
\* outside .razorcore too.
C1_OutsideStagedKeptButCascade ==
    \A p \in Paths :
        (/\ CommittedSubtree(last.frame)
         /\ p[1] # last.frame.proj
         /\ ~(last.frame.auto_save /\ last.frame.proj # ".razorcore" /\ p[1] = ".razorcore")
         /\ last.frame.idx0[p] # last.frame.head0[p])
        => last.index[p] = last.frame.idx0[p]

\* save_project committed 4Charm and reset its paths while notes/todo.md,
\* staged before, is still staged
C1_Witness ==
    /\ CommittedSubtree(last.frame)
    /\ last.frame.fn = "save_project" /\ last.frame.proj = "4Charm"
    /\ last.frame.commitRc = 0
    /\ last.frame.idx0[NotesPath] # last.frame.head0[NotesPath]
    /\ last.index[NotesPath] = last.frame.idx0[NotesPath]
    /\ last.index[<<"4Charm", "main.py">>] # last.frame.idx0[<<"4Charm", "main.py">>]

\* C2: while a nested project P is being committed, a temporary index that
\* was read from HEAD holds HEAD's entry for every path outside P, and a
\* step that moves HEAD changes it only at paths under P.
C2_OnlyProjectPathsCommitted ==
    [][(stack # <<>> /\ layout = "mono") =>
          /\ (Top.tmp # 0 /\ tmpFiles[Top.tmp].st = "index") =>
                \A p \in Paths : p[1] # Top.proj => tmpFiles[Top.tmp].tree[p] = head[p]
          /\ \A p \in Paths : head'[p] # head[p] => p[1] = Top.proj]_vars

\* the temporary-index commit of a project was made while notes/todo.md
\* differs from HEAD in the working tree and in the primary index
C2_Witness ==
    /\ stack # <<>> /\ layout = "mono"
    /\ Top.tmp # 0 /\ Top.commitRc = 0 /\ Top.pc = "reset"
    /\ head[<<Top.proj, "main.py">>] # 1
    /\ wt[NotesPath] # head[NotesPath] /\ index[NotesPath] # head[NotesPath]

SavedNothing(f) ==
    /\ f.fn = "save_project"
    /\ ~f.changed
    /\ f.pc \in {"status", "nochange_ret"}

C5_SaveAllContinues ==
    last.frame.fn = "save_all" =>
        /\ last.exc # "ValueError"
        /\ last.exc = "none" =>
              /\ last.frame.i = Len(MANAGED_PROJECTS) + 1
              /\ last.rc = (IF last.frame.errors > 0 THEN 1 ELSE 0)

\* C8: a call whose git push exited non-zero returns a non-zero code, and
\* made that push once.
C8_PushFailureReturned ==
    (last.frame.pushFail /\ last.exc = "none") =>
        /\ last.rc # 0
        /\ last.frame.pushes <= 1

\* C9: when a push of bump_version fails, the call returns 1 and what it made
\* stays: the commit, if it was made, is the last of the log and HEAD holds
\* the rewritten pyproject.toml; the tag, if it was made, is in the
\* repository at that commit; the working tree holds the rewritten file.
C9_PushFailureKeepsLocalWork ==
    LET f == last.frame
        repo == RepoOf(f.proj)
        py == <<f.proj, "pyproject.toml">> IN
    (f.fn = "bump_version" /\ f.pushFail /\ stack = <<>>) =>
        /\ last.exc = "none" /\ last.rc = 1
        /\ wt[py] = PyReplace(f.head0[py], f.cur, f.new)
        /\ f.commitRc = 0 =>
              /\ log[repo] # <<>>
              /\ log[repo][Len(log[repo])] = BumpMessage(f.new)
              /\ head[py] = wt[py]
        /\ f.tagRc = 0 =>
              [prefix |-> TagMatch(f.proj), ver |-> f.new, at |-> Len(log[repo])] \in tags[repo]

\* the first push of bump_version failed after the commit and the tag of
\* 1.2.4 were made in the workspace repository
C9_Witness ==
    /\ last.frame.fn = "bump_version" /\ last.frame.pushFail /\ stack = <<>>
    /\ last.frame.pc = "push"
    /\ last.frame.commitRc = 0 /\ last.frame.tagRc = 0
    /\ last.frame.new # last.frame.cur
    /\ PyVersion(wt[<<last.frame.proj, "pyproject.toml">>]) = last.frame.new

\* C10: bump_version and auto_bump_version, reading a current version that
\* is not three integers, return 1, and no commit and no push is invoked.
C10_BadVersionReturnsOne ==
    LET f == last.frame IN
    (/\ f.fn \in {"bump_version", "auto_bump_version"}
     /\ f.pc = "plan" /\ f.ncommits > 0
     /\ ParseOutcome(f.cur) # "ok") =>
        /\ last.exc = "none" /\ last.rc = 1
        /\ last.nCommit = f.c0 /\ last.nPush = f.p0

\* C13: while bump_version runs with dry_run set, no step changes a file, an
\* index, HEAD, the log, the tags or the remote, and no git commit or push is
\* invoked; when it has commits to analyse and a well-formed version it ends
\* with return code 0 and a new version computed.
C13_DryRunChangesNothing ==
    [][(stack # <<>> /\ Top.fn = "bump_version" /\ Top.dry_run) =>
          /\ UNCHANGED <<head, index, wt, tmpFiles, log, tags, pushed, nCommit, nPush>>
          /\ (stack' = <<>> /\ last'.frame.ncommits > 0
                 /\ ParseOutcome(last'.frame.cur) = "ok") =>
                /\ last'.exc = "none" /\ last'.rc = 0
                /\ last'.frame.pc = "plan"
                /\ last'.frame.new \notin {<<>>, last'.frame.cur}]_vars

\* a dry run of bump_version returned 0 with a new version computed while
\* pyproject.toml still holds the current one
C13_Witness ==
    /\ stack = <<>>
    /\ last.frame.fn = "bump_version" /\ last.frame.dry_run
    /\ last.rc = 0 /\ last.frame.ncommits > 0
    /\ last.frame.new \notin {<<>>, last.frame.cur}
    /\ PyVersion(wt[<<last.frame.proj, "pyproject.toml">>]) = last.frame.cur
    /\ nCommit = 0 /\ nPush = 0 /\ tmpFiles = <<>>

(***************************************************************************)
(* Properties of the command line, under SpecCli.                          *)
(***************************************************************************)
\* C11: main ends by returning 0, 1 or 130, and an exception it caught gives
\* 130 when it is KeyboardInterrupt and 1 otherwise.
C11_MainExitCodes ==
    (last.frame.fn = "main" /\ stack = <<>>) =>
        /\ last.exc = "none"
        /\ last.rc \in {0, 1, 130}
        /\ last.frame.raising =>
              last.rc = (IF last.frame.pending = "KeyboardInterrupt" THEN 130 ELSE 1)

\* C12: commit_all ends by returning, after the last project, 1 iff a project
\* had an error; no git step that exits non-zero raises out of it.  (An
\* interrupt is left aside.)
C12_CommitAllCapturesFailures ==
    last.frame.fn = "commit_all" =>
        /\ last.exc \in {"none", "KeyboardInterrupt"}
        /\ last.exc = "none" =>
              /\ last.frame.i = Len(MANAGED_PROJECTS) + 1
              /\ last.rc = (IF last.frame.errors > 0 THEN 1 ELSE 0)


(***************************************************************************)
(* Properties of the commit message, under SpecMsg.                        *)
(***************************************************************************)
\* the paths git status listed, and the filenames the three lists hold
ListedPaths == {SliceFrom(statusIn.lines[i], 3) : i \in DOMAIN statusIn.lines}
PlannedFiles ==
    {(plan.added \o plan.modified \o plan.deleted)[i] :
        i \in 1..(Len(plan.added) + Len(plan.modified) + Len(plan.deleted))}

\* some listed path contains one of the keywords, whatever the letter case
AnyPathHas(keywords) ==
    \E path \in ListedPaths, k \in keywords : Contains(Lower(path), k)

\* C14: the commit type follows a fixed priority over the whole set of changed
\* paths: test when any path contains "test"; otherwise fix when any path
\* contains "fix" or "bug"; otherwise feat when any path contains "feature",
\* "new" or "add"; the diff heuristic or chore only when no path has a keyword
\* (stated for the status outputs whose paths all reached the lists unaltered).
C14_TypeByPriority ==
    (plan.pc \in {"scope", "desc", "done"} /\ PlannedFiles = ListedPaths) =>
        /\ AnyPathHas({KwTest}) => plan.commit_type = "test"
        /\ (~AnyPathHas({KwTest}) /\ AnyPathHas({KwFix, KwBug})) =>
              plan.commit_type = "fix"
        /\ (~AnyPathHas({KwTest, KwFix, KwBug}) /\ AnyPathHas({KwFeature, KwNew, KwAdd})) =>
              plan.commit_type = "feat"
        /\ ~AnyPathHas({KwTest, KwFix, KwBug, KwFeature, KwNew, KwAdd}) =>
              plan.commit_type \in {"chore", "feat", "fix"}


\* the reorderings of the status lines that move lines of the same kind
\* (added, modified, deleted) among themselves
SameKindReorderings ==
    LET n == Len(statusIn.lines) IN
    {[i \in 1..n |-> statusIn.lines[p[i]]] :
        p \in {q \in [1..n -> 1..n] :
                  /\ \A i, j \in 1..n : i # j => q[i] # q[j]
                  /\ \A i \in 1..n :
                        ListOf(statusIn.lines[q[i]]) = ListOf(statusIn.lines[i])}}

\* C15: the commit type and the scope depend only on the set of changed
\* paths: the status lines of one kind permuted among themselves give the
\* same type and the same scope (stated for the status outputs in which no
\* line begins with a blank, whose paths all reach the lists unaltered).
C15_OrderIndependent ==
    (plan.pc = "done" /\ \A i \in DOMAIN statusIn.lines : statusIn.lines[i][1] # " ") =>
        \A lines \in SameKindReorderings :
            /\ TypeFor([statusIn EXCEPT !.lines = lines]) = plan.commit_type
            /\ ScopeFor([statusIn EXCEPT !.lines = lines]) = plan.scope


\* for every listed path its immediate parent directory, or the stem of a
\* top-level file
ParentOrStem ==
    {LET parts == Split(path, "/") IN
        IF Len(parts) > 1 THEN parts[Len(parts) - 1] ELSE Split(path, ".")[1]
     : path \in ListedPaths}

\* C16: the scope comes from the set holding, for every changed path, its
\* immediate parent directory name, or its file stem when the path is a
\* top-level file: one element gives "(element)", anything else no scope
\* (stated for the status outputs whose paths all reach the lists unaltered).
C16_ScopeFromParentOrStem ==
    (plan.pc \in {"desc", "done"} /\ PlannedFiles = ListedPaths) =>
        plan.scope = IF Cardinality(ParentOrStem) = 1
                     THEN <<"(">> \o (CHOOSE d \in ParentOrStem : TRUE) \o <<")">>
                     ELSE <<>>


\* the basenames of the listed paths of one kind, in the order git printed them
ListedBasenames(list) ==
    LET OfKind(line) == ListOf(line) = list
        sel == SelectSeq(statusIn.lines, OfKind) IN
    [i \in 1..Len(sel) |->
        LET parts == Split(SliceFrom(sel[i], 3), "/") IN parts[Len(parts)]]

\* the first three of a list of names, joined by ", "
UpToThree(names) == Join(SubSeq(names, 1, IF Len(names) < 3 THEN Len(names) ELSE 3), <<",", " ">>)

\* C17: the description is "add " and the first three added basenames (plus
\* " and N more" beyond three) for additions only; "remove " and the deleted
\* basenames for deletions only; "update " and the modified basenames when
\* anything is modified; "update N files", N the number of changed paths,
\* otherwise.
C17_Description ==
    plan.pc = "done" =>
        LET a == ListedBasenames("added")
            m == ListedBasenames("modified")
            d == ListedBasenames("deleted") IN
        /\ (Len(a) > 0 /\ Len(m) = 0 /\ Len(d) = 0) =>
              plan.desc = <<"a", "d", "d", " ">> \o UpToThree(a)
                             \o (IF Len(a) > 3
                                 THEN <<" ", "a", "n", "d", " ">> \o FormatInt(Len(a) - 3) \o <<" ", "m", "o", "r", "e">>
                                 ELSE <<>>)
        /\ (Len(d) > 0 /\ Len(a) = 0 /\ Len(m) = 0) =>
              plan.desc = <<"r", "e", "m", "o", "v", "e", " ">> \o UpToThree(d)
        /\ Len(m) > 0 => StartsWith(plan.desc, <<"u", "p", "d", "a", "t", "e", " ">> \o UpToThree(m))
        /\ (Len(m) = 0 /\ Len(a) > 0 /\ Len(d) > 0) =>
              plan.desc = <<"u", "p", "d", "a", "t", "e", " ">> \o FormatInt(Len(statusIn.lines)) \o <<" ", "f", "i", "l", "e", "s">>


DescFourAdded == <<"a", "d", "d", " ", "f", "o", "o", ".", "p", "y", ",", " ", "b", "a", "r", ".", "p", "y", ",", " ", "b", "a", "z", ".", "p", "y", " ", "a", "n", "d", " ", "1", " ", "m", "o", "r", "e">>

\* C18 as stated: for the four status lines "A  src/foo.py", "A  src/bar.py",
\* "A  src/baz.py", "A  src/qux.py" the description is
\* "add foo.py, bar.py, baz.py and 1 more" and the commit type is feat.
C18_FourAddedFeat ==
    (plan.pc = "done" /\ statusIn.lines = FourAdded) =>
        /\ plan.desc = DescFourAdded
        /\ plan.commit_type = "feat"

\* C18, amended: for those four status lines the description is
\* "add foo.py, bar.py, baz.py and 1 more", the scope is "(src)" and the
\* commit type is chore: no path contains a keyword, and git diff prints
\* nothing for a staged addition.
C18_FourAddedChore ==
    (plan.pc = "done" /\ statusIn.lines = FourAdded) =>
        /\ plan.desc = DescFourAdded
        /\ plan.scope = <<"(", "s", "r", "c", ")">>
        /\ plan.commit_type = "chore"
        /\ plan.commit_msg = <<"c", "h", "o", "r", "e", "(", "s", "r", "c", ")", ":", " ">> \o DescFourAdded

C18_Witness ==
    /\ plan.pc = "done" /\ statusIn.lines = FourAdded
    /\ Len(plan.added) = 4 /\ plan.desc = DescFourAdded


(***************************************************************************)
(* Properties of BaseWorker, under SpecWorker.                             *)
(***************************************************************************)
\* C19: when request_cancel is called while the worker is paused and its
\* thread is blocked in wait_if_paused, wait_if_paused eventually returns, and
\* it returns False, as long as the worker thread keeps being scheduled, also
\* when pause() or resume() is called again after the cancellation.
C19_CancelReleasesPausedWorker ==
    /\ worker.blocked ~> ~worker.blocked
    /\ [][(worker.blocked /\ ~worker'.blocked) =>
             (worker'.pc = "work" /\ worker'.returned = FALSE)]_vars

C19_Witness ==
    /\ worker.released /\ worker.again
    /\ worker.pc = "work" /\ worker.returned = FALSE


(***************************************************************************)
(* Properties of UpdateChecker, under SpecUpdate.                          *)
(***************************************************************************)
\* the entry check found was usable: an entry not older than CACHE_DURATION
FoundFresh ==
    /\ upd.res.before.state = "entry"
    /\ upd.res.readNow - upd.res.before.timestamp <= CACHE_DURATION

\* the result came from the cache only without force and from a fresh entry
ServedOnlyFresh ==
    upd.res.source = "cache" =>
        /\ ~upd.res.force /\ FoundFresh
        /\ upd.res.version = upd.res.before.latest_version

\* with force, or without a fresh entry, the latest release was fetched
OtherwiseFetched ==
    (upd.res.source # "none" /\ (upd.res.force \/ ~FoundFresh)) =>
        upd.res.source \in {"fetch", "error"}

\* C20 as stated: check serves from the cache only when force is False and
\* the entry is not older than CACHE_DURATION; with force, or with a missing,
\* unreadable or expired entry, it fetches; and after a successful fetch the
\* cache holds the fetched version with the current timestamp.
C20_CacheHoldsFetched ==
    /\ ServedOnlyFresh
    /\ OtherwiseFetched
    /\ upd.res.source = "fetch" =>
          upd.res.after = CacheEntry(upd.res.version, upd.res.writeNow)

\* C20, amended: as above, but the cache holds the fetched version with the
\* current timestamp only when writing the cache file succeeded; a failed
\* write is ignored and leaves the old file or an unreadable one.
C20_CacheHoldsFetchedIfWritten ==
    /\ ServedOnlyFresh
    /\ OtherwiseFetched
    /\ (upd.res.source = "fetch" /\ upd.res.wrote) =>
          upd.res.after = CacheEntry(upd.res.version, upd.res.writeNow)
    /\ (upd.res.source = "fetch" /\ ~upd.res.wrote) =>
          upd.res.after \in {upd.res.before, CacheUnreadable}

\* a forced check over a fresh entry fetched and wrote a newer version
C20_Witness ==
    /\ upd.pc = "idle" /\ upd.res.source = "fetch" /\ upd.res.wrote
    /\ upd.res.force /\ FoundFresh
    /\ upd.res.version # upd.res.before.latest_version
    /\ upd.cache = CacheEntry(upd.res.version, upd.res.writeNow)


(***************************************************************************)
(* Further properties of the commands, under Spec.                         *)
(***************************************************************************)
\* this step is a call made by a save_project frame that had found changes
SaveCalls(fn) ==
    /\ stack # <<>> /\ Top.fn = "save_project" /\ Top.changed
    /\ Len(stack') = Len(stack) + 1
    /\ stack'[Len(stack')].fn = fn

\* this step ends a save_project call that had found changes
SaveEnds ==
    /\ stack # <<>> /\ Top.fn = "save_project" /\ Top.changed
    /\ Len(stack') = Len(stack) - 1
    /\ last'.frame.fn = "save_project" /\ last'.exc = "none"

\* C21: in a save_project call that found changes the steps are gated in
\* order: git push runs only after the commit succeeded (a failed commit
\* returns 1 without a push), the version bumper is called only after the push
\* succeeded (a failed push returns 1 without bump or cascade), and the
\* cascaded save of .razorcore is attempted only after the bump step.
C21_StepsGatedInOrder ==
    [][/\ (stack # <<>> /\ Top.fn = "save_project" /\ nPush' = nPush + 1) =>
              (Top.changed /\ Top.commitRc = 0 /\ Top.pushes = 0)
       /\ SaveCalls("auto_bump_version") =>
              (Top.commitRc = 0 /\ Top.pushes = 1 /\ ~Top.pushFail)
       /\ SaveCalls("_maybe_auto_save_razorcore") =>
              /\ Top.commitRc = 0 /\ Top.pushes = 1 /\ ~Top.pushFail
              /\ (Top.auto_bump /\ PyExists(wt[<<Top.proj, "pyproject.toml">>])) =>
                    (last.frame.fn = "auto_bump_version" /\ last.frame.proj = Top.proj)
       /\ (SaveEnds /\ last'.frame.commitRc # 0) =>
              (last'.rc = 1 /\ last'.frame.pushes = 0 /\ last'.nPush = last'.frame.p0)
       /\ (SaveEnds /\ last'.frame.pushFail) =>
              /\ last'.rc = 1 /\ last'.frame.pushes = 1
              /\ last'.nPush = last'.frame.p0 + 1
              /\ last'.nCommit = last'.frame.c0 + 1]_vars

\* the cascade is being called after a commit, a successful push and the bump
C21_Witness ==
    /\ Len(stack) >= 2 /\ Top.fn = "_maybe_auto_save_razorcore" /\ Top.pc = "enter"
    /\ stack[Len(stack) - 1].fn = "save_project" /\ stack[Len(stack) - 1].changed
    /\ stack[Len(stack) - 1].commitRc = 0 /\ stack[Len(stack) - 1].pushes = 1
    /\ last.frame.fn = "auto_bump_version"


\* C22: a release tag for version V of a project is created only after the
\* commit that records V has been made successfully; a (project, version)
\* pair is tagged at most once and an existing tag is never moved or made
\* again.
C22_TagAfterVersionCommit ==
    [][\A repo \in Repos :
          /\ \A t \in tags'[repo] \ tags[repo] :
                /\ stack # <<>> /\ Top.commitRc = 0
                /\ t.at > 0 /\ log[repo][t.at] = BumpMessage(t.ver)
          /\ tags[repo] \subseteq tags'[repo]
          /\ \A t, u \in tags'[repo] :
                (t.prefix = u.prefix /\ t.ver = u.ver) => t = u]_vars


\* C24: whenever a bump_version or auto_bump_version that is not a dry run
\* creates the tag of a new version V, the version of the project's
\* pyproject.toml reads V at that point, whatever the content of the file the
\* current version was read from.
C24_TagAgreesWithMetadata ==
    [][\A repo \in Repos : \A t \in tags'[repo] \ tags[repo] :
          /\ stack # <<>> /\ Top.fn \in {"bump_version", "auto_bump_version"}
          /\ ~Top.dry_run
          /\ PyVersion(wt[<<Top.proj, "pyproject.toml">>]) = t.ver]_vars

\* C27: save_all counts a project as saved only if, during this run, a commit
\* for that project was created and pushed; a project for which nothing was
\* committed is counted as skipped or as an error, never as saved.
C27_SavedMeansCommittedAndPushed ==
    [][(/\ stack # <<>> /\ Top.fn = "save_all"
        /\ Len(stack') = Len(stack)
        /\ stack'[Len(stack)].saved = Top.saved + 1) =>
           /\ last.frame.fn = "save_project"
           /\ last.frame.proj = MANAGED_PROJECTS[Top.i]
           /\ last.frame.commitRc = 0
           /\ last.frame.pushes = 1 /\ ~last.frame.pushFail]_vars

(***************************************************************************)
(* Properties of one save_project call, under SpecSave.                    *)
(***************************************************************************)
\* this step calls fn
Calls(fn) ==
    /\ Len(stack') = Len(stack) + 1
    /\ stack'[Len(stack')].fn = fn

\* C25: a save_project call triggers at most one cascaded save of
\* .razorcore, and that save triggers no further cascade: it runs with
\* auto_save_razorcore off, and project ".razorcore" never cascades; so the
\* call ends after at most two per-project saves, every git invocation
\* returning.
C25_OneCascadeThenEnd ==
    /\ <>(stack = <<>>)
    /\ [][/\ Calls("_maybe_auto_save_razorcore") =>
                /\ Len(stack) = 1 /\ Top.fn = "save_project"
                /\ Top.auto_save /\ Top.proj # ".razorcore"
                /\ last.frame.fn \notin {"_maybe_auto_save_razorcore", "save_project"}
          /\ Calls("save_project") =>
                /\ Len(stack) = 2 /\ Top.fn = "_maybe_auto_save_razorcore"
                /\ stack'[3].proj = ".razorcore" /\ ~stack'[3].auto_save
                /\ last.frame.fn \notin {"_maybe_auto_save_razorcore", "save_project"}]_vars

\* the call has ended after its own save and one cascaded save, both committed
C25_Witness ==
    /\ stack = <<>> /\ last.frame.fn = "save_project" /\ last.frame.proj = "4Charm"
    /\ last.frame.auto_save /\ last.frame.changed
    /\ last.nCommit >= 2 /\ Len(log[RepoOf(".razorcore")]) > 1

(***************************************************************************)
(* Properties of the commit range, under SpecRange.                        *)
(***************************************************************************)
\* the tags of 4Charm's repository that match its tag pattern
OwnTags == {t \in tags[RepoOf("4Charm")] : t.prefix = TagMatch("4Charm")}

\* C23: without a release tag matching the project's pattern the bump command
\* classifies only the subject of the most recent commit, not the whole
\* history; with a matching tag T, exactly the subjects of T..HEAD.
C23_RangeByMatchingTag ==
    outBump \in {"bump_version", "auto_bump_version", "cli"} =>
        LET h == log[RepoOf("4Charm")] IN
        IF OwnTags = {}
        THEN inCommits = <<h[Len(h)]>>
        ELSE \E t \in OwnTags :
                /\ \A u \in OwnTags : u.at <= t.at
                /\ Len(inCommits) = Len(h) - t.at
                /\ \A i \in 1..Len(inCommits) : inCommits[i] = h[Len(h) + 1 - i]


(***************************************************************************)
(* Properties of BaseWorker.run and BatchWorker.do_work, under SpecBatch.  *)
(***************************************************************************)
EmittedOf(signal) == SelectSeq(batch.emitted, LAMBDA e : e.signal = signal)

ErrorThenFinished ==
    <<[signal |-> "error", arg |-> "str(e)"], [signal |-> "finished", arg |-> "{error}"]>>

\* C28, as stated: every execution of run emits finished exactly once,
\* whether do_work returns or raises; when do_work raises, error is emitted
\* once, before finished, and finished carries a dict with the key 'error';
\* when do_work returns, error is not emitted.
C28_FinishedOnceAlways ==
    /\ Len(EmittedOf("finished")) <= 1
    /\ batch.pc \in {"done", "propagated"} =>
          /\ Len(EmittedOf("finished")) = 1
          /\ batch.outcome \in Raises => batch.emitted = ErrorThenFinished
          /\ batch.outcome = "returned" => EmittedOf("error") = <<>>

\* C28: every execution of run in which do_work returns, or raises an
\* exception of class Exception, emits finished exactly once: after a return
\* without error, after an Exception with error emitted once before it and a
\* dict with the key 'error' as its argument.  An exception that is not of
\* class Exception leaves run with nothing emitted.
C28_FinishedOnceUnlessUncaught ==
    /\ Len(EmittedOf("finished")) <= 1
    /\ batch.pc = "done" =>
          /\ Len(EmittedOf("finished")) = 1
          /\ batch.outcome \in {"returned", "Exception"}
          /\ batch.outcome = "Exception" => batch.emitted = ErrorThenFinished
          /\ batch.outcome = "returned" =>
                /\ EmittedOf("error") = <<>>
                /\ batch.emitted[1].arg \in {"{}", "dict", "stats"}
    /\ batch.pc = "propagated" =>
          batch.outcome = "BaseException" /\ batch.emitted = <<>>
    /\ batch.pc \notin {"done", "propagated"} => batch.emitted = <<>>

C28_Witness ==
    /\ batch.pc = "done" /\ batch.outcome = "Exception"
    /\ batch.emitted = ErrorThenFinished

\* C29, as stated: at every point of BatchWorker.do_work, under any
\* interleaving of pause, resume and request_cancel, processed = succeeded +
\* failed <= len(items); items are processed in list order; an exception in
\* process_item for one item does not stop the remaining items; no item is
\* processed after wait_if_paused has returned False.
C29_StatsAtEveryPoint ==
    /\ [](batch.cls = "BatchWorker" =>
            /\ batch.stats.processed = batch.stats.succeeded + batch.stats.failed
            /\ batch.stats.processed <= batch.items
            /\ batch.order = [k \in 1..Len(batch.order) |-> k]
            /\ (batch.pc \in {"return", "emit_finished", "done", "propagated"}
                  /\ ~batch.stopped) => Len(batch.order) = batch.items)
    /\ [][batch.stopped => batch'.order = batch.order]_vars

\* C29: in BatchWorker.do_work, under any interleaving of pause, resume and
\* request_cancel, processed = succeeded + failed <= len(items) holds at each
\* call of wait_if_paused and when do_work returns, and between the count of
\* an item as succeeded or failed and `processed += 1` the sum is one ahead;
\* items are processed in list order; an Exception raised by process_item for
\* one item does not stop the remaining items, so a do_work that returns
\* without wait_if_paused having returned False has processed every item; no
\* item is processed after wait_if_paused has returned False.
C29_StatsAtLoopPoints ==
    /\ [](batch.cls = "BatchWorker" =>
            /\ batch.stats.succeeded + batch.stats.failed =
                  batch.stats.processed +
                     (IF batch.pc \in {"item_processed", "processed"} THEN 1 ELSE 0)
            /\ batch.stats.succeeded + batch.stats.failed <= batch.items
            /\ batch.order = [k \in 1..Len(batch.order) |-> k]
            /\ (batch.pc \in {"return", "emit_finished", "done"} /\ ~batch.stopped) =>
                  /\ Len(batch.order) = batch.items
                  /\ batch.stats.processed = batch.items)
    /\ [][batch.stopped => batch'.order = batch.order]_vars

C29_Witness ==
    /\ batch.cls = "BatchWorker" /\ batch.items = 3 /\ batch.pc = "done"
    /\ batch.stopped /\ batch.order = <<1, 2>>
    /\ batch.stats.failed = 1 /\ batch.stats.succeeded = 1
    /\ batch.stats.processed = 2

(***************************************************************************)
(* Properties of the post-commit hook, under SpecHook.                     *)
(***************************************************************************)
\* at most one instance is past the lock directory
OneHolder ==
    \A i, j \in Instances : (PastLock(i) /\ PastLock(j)) => i = j

\* an instance fired by a commit of a running save never runs a save itself,
\* so no instance fired by a save fires another
NoNestedSave ==
    \A j \in Instances :
        hooks.proc[j].parent # 0 =>
            /\ ~hooks.proc[j].ran
            /\ hooks.proc[hooks.proc[j].parent].parent = 0

\* C26 as stated: at most one instance at a time gets past the lock directory
\* and runs the save; an instance fired by a commit of that save finds the
\* lock held and exits without a save, so hooks never recurse without bound;
\* and the lock is released when its holder exits.
C26_LockReleasedAtExit ==
    /\ OneHolder
    /\ NoNestedSave
    /\ \A i \in Instances : hooks.proc[i].pc = "done" => hooks.lock # i

\* C26, amended: as above, but the lock is released when its holder exits
\* through the shell's EXIT trap; a holder ended by a signal that runs no trap
\* leaves the lock directory behind, and from then on every instance exits
\* without a save.
C26_LockReleasedByTrap ==
    /\ OneHolder
    /\ NoNestedSave
    /\ \A i \in Instances :
          (hooks.proc[i].pc = "done" /\ hooks.lock = i) => hooks.proc[i].killed
    /\ \A i \in Instances :
          (hooks.lock # 0 /\ hooks.proc[hooks.lock].pc = "done") =>
              (hooks.lock # i => ~PastLock(i))

\* a save has run and ended, the hook of its commit found the lock held, and
\* the lock is free again
C26_Witness ==
    /\ hooks.lock = 0
    /\ \E i, j \in Instances :
          /\ hooks.proc[i].pc = "done" /\ hooks.proc[i].ran /\ ~hooks.proc[i].killed
          /\ hooks.proc[j].parent = i /\ hooks.proc[j].pc = "done" /\ ~hooks.proc[j].ran

====
